---- MODULE Spec2Model ----
(***************************************************************************)
(* Life Map: the category manager, the age/date normalizer, the display-   *)
(* range selector and the timeline layout, modelled from the TypeScript    *)
(* sources.  Every group of variables belongs to one component; each       *)
(* specification below drives one component and leaves the others idle.    *)
(***************************************************************************)
EXTENDS Integers, Sequences, FiniteSets, TLC

VARIABLES
    \* CategoryManager / LifeMapView state
    categories,       \* Category[]: sequence of [id, name, section, display_order]
    nextCategoryId,   \* next id handed to a created category
    items,            \* LifeMapView items: sequence of [id, category_id, category]
    showForm,         \* CategoryManager: the edit form is open
    editingCategory,  \* id of the category being edited, or NoId
    formData,         \* [name, section, display_order]
    errors,           \* set of field names validateForm rejected on the last save
    \* LifeMapView state around the item form
    nextItemId,       \* next id handed to a created item
    showItemForm,
    editingItem,      \* the item handed to ItemForm: <<>> (null) or <<item>>
    selectedCategory, \* the category handed to ItemForm: <<>> (null) or <<category>>
    showCategoryManager, \* CategoryManager is mounted
    \* LifeMapView state handed to Timeline as props
    dateOfBirth,      \* date string: <<>> (''), <<BadDate>> or <<[y, m, d]>>
    ageRange,
    currentAge,
    viewMode,         \* "all" | "past" | "future"
    autoScale,        \* Timeline prop
    timelineWidth,    \* Timeline prop width, in pixels
    zoom,             \* zoom level in tenths (10 is 1.0)
    \* the host
    tzBehindUTC,      \* the host's time zone is west of UTC
    \* Timeline: what the last render computed
    rendered,         \* a render has happened
    itemAges,         \* Map item id -> DerivedAges
    displayWindow,    \* calculateDisplayRange(): [startAge, displayRange]
    itemWidths,       \* Map item id -> width
    stackPositions,   \* Map item id -> lane
    categoryMaxStacks,\* Map category id -> number of lanes
    drawnItems,       \* Map item id -> the rectangle drawn for it
    drawnLines,       \* ids of the items with a connector line
    ageMarkers,       \* ages with a year box on the axis
    itemHeights,      \* Map item id -> height
    categoryMaxHeights, \* Map category id -> height of its band
    categoryBackgrounds, \* Map category id -> [y, height] of its background rect
    ageBarY,          \* y of the age axis
    itemRows,         \* Map item id -> [y, height]: centre and height of renderItem
    zeroDivisions,    \* the divisions by zero the render executed
    \* the router, LifeMapView's file state, api.ts and the host's storage
    page,             \* the route shown: "dashboard" | "life-map"
    lifeMap,          \* LifeMapView lifeMap: <<>> (null) or <<[title, zoom]>>
    tempTitle,        \* title field of the project settings
    showSettingsOnNewFile,
    lastSavedStateRef,\* <<>> (null) or <<[items, categories, title, date_of_birth, age_range, zoom]>>
    showCloseWarning,
    alertShown,       \* the message of the alert() of the last step: <<>> or <<message>>
    currentFilePath,  \* api.ts currentFilePath: <<>> (null) or <<path>>
    disk,             \* the .lifemap files: path -> <<>> (no file) or <<LifeMapData>>
    storedRecentFiles \* what recentFiles.get() returns: sequence of [path, title]

catVars == <<categories, nextCategoryId, items, showForm, editingCategory, formData, errors>>

viewVars == <<dateOfBirth, ageRange, currentAge, viewMode, autoScale, timelineWidth, zoom,
              tzBehindUTC>>

timelineVars == <<rendered, itemAges, displayWindow, itemWidths, stackPositions,
                  categoryMaxStacks, drawnItems, drawnLines, ageMarkers, zeroDivisions,
                  itemHeights, categoryMaxHeights, categoryBackgrounds, ageBarY, itemRows>>

itemFormVars == <<nextItemId, showItemForm, editingItem, selectedCategory,
                  showCategoryManager>>

fileVars == <<page, lifeMap, tempTitle, showSettingsOnNewFile, lastSavedStateRef,
              showCloseWarning, alertShown, currentFilePath, disk, storedRecentFiles>>

vars == <<catVars, viewVars, timelineVars, itemFormVars, fileVars>>

----------------------------------------------------------------------------
(* Bounds of the model *)

InitCategories == 2     \* categories in the loaded life map
MaxCategories == 2      \* categories the manager may hold
InitItems == 1          \* timeline items in the loaded life map
MaxCategoryId == 3      \* ids the session may hand out to created categories
MaxYearSpan == 1        \* event dates span the years 2010 .. 2010 + MaxYearSpan
MaxRangeItems == 2      \* items of the life map in the display-range runs
MaxLayoutItems == 3     \* items of the life map in the lane and shape runs
MaxBandItems == 3       \* items of the life map in the band and row runs
MaxViewItems == 2       \* items of the life map in the view runs
MaxItems == 1           \* items of the life map in the item-form runs
MaxItemId == 3          \* greatest item id handed out in the item-form runs

----------------------------------------------------------------------------
(* Generic helpers *)

Range(s) == {s[i] : i \in DOMAIN s}

Max(S) == CHOOSE x \in S : \A y \in S : y <= x

Min(S) == CHOOSE x \in S : \A y \in S : x <= y

\* Array.prototype.splice(pos, 0, x): insert x at index pos (0-based); a
\* position past the end appends.
\* The one element of a singleton set.  Only({e(x) : x \in {v}}) is e with
\* x bound to the value of v, as a const declaration binds it once.
Only(S) == CHOOSE x \in S : TRUE

Splice(s, pos, x) ==
    LET p == IF pos > Len(s) THEN Len(s) ELSE pos
    IN  SubSeq(s, 1, p) \o <<x>> \o SubSeq(s, p + 1, Len(s))

\* Math.floor(a / b) and Math.ceil(a / b) of whole numbers, b > 0
FloorDiv(a, b) == a \div b

CeilDiv(a, b) == -((-a) \div b)

----------------------------------------------------------------------------
(* Ages *)

\* An age is a JavaScript number of years.  The item form stores
\* Number(startAge) and Number(endAge) of any text that is a number in
\* 0..maxAge, fractions included, so an age is held as a whole number of
\* 1/AgeUnit years.
AgeUnit == 2

\* n years
Yr(n) == n * AgeUnit

----------------------------------------------------------------------------
(* Optional values: <<>> is undefined/null, <<x>> is the value x *)

NoId == 0

NoCategory == [id |-> NoId]      \* "undefined" category reference

None == <<>>

Some(x) == <<x>>

\* o ?? d
OrElse(o, d) == IF o = <<>> THEN d ELSE o[1]

----------------------------------------------------------------------------
(* Dates (src/utils/ageCalculator.ts) *)

\* A date string 'YYYY-MM-DD' is the record of its three fields; BadDate is a
\* non-empty string that is no date ('abc').
Date(y, m, d) == [y |-> y, m |-> m, d |-> d]

BadDate == Date(0, 0, 0)

IsLeap(y) == (y % 4 = 0 /\ y % 100 # 0) \/ y % 400 = 0

DaysInMonth(y, m) ==
    IF m = 2 THEN (IF IsLeap(y) THEN 29 ELSE 28)
    ELSE IF m \in {4, 6, 9, 11} THEN 30 ELSE 31

ValidDate(dt) == dt.m \in 1 .. 12 /\ dt.d \in 1 .. DaysInMonth(dt.y, dt.m)

PrevDay(dt) ==
    IF dt.d > 1 THEN Date(dt.y, dt.m, dt.d - 1)
    ELSE IF dt.m > 1 THEN Date(dt.y, dt.m - 1, DaysInMonth(dt.y, dt.m - 1))
    ELSE Date(dt.y - 1, 12, 31)

\* new Date(str): a date-only ISO string is parsed as midnight UTC of that
\* day (ECMAScript Date.parse); any other text gives an Invalid Date (None).
\* The time value is kept as its UTC calendar day.
NewDate(str) == IF ValidDate(str) THEN Some(str) ELSE None

\* getFullYear() / getMonth() / getDate(): the fields of the time value in
\* the host's local time.  Midnight UTC is the same calendar day in a zone at
\* or east of UTC and the day before in a zone west of it.  (Months are kept
\* 1-based; only their differences are used.)
LocalFields(t) == IF tzBehindUTC THEN PrevDay(t) ELSE t

\* new Date(): the local calendar day on which the program runs
Today == Date(2030, 6, 1)

\* calculateAge: whole years from the date of birth to today
calculateAge(dob) ==
    IF dob = None THEN None
    ELSE LET birthDateObj == NewDate(dob[1])
         IN  IF birthDateObj = None THEN None
             ELSE LET bd == LocalFields(birthDateObj[1])
                      age == Today.y - bd.y
                      monthDiff == Today.m - bd.m
                  IN  IF monthDiff < 0 \/ (monthDiff = 0 /\ Today.d < bd.d)
                      THEN Some(Yr(age - 1))
                      ELSE Some(Yr(age))

calculateAgeAtDate(eventDate, dob) ==
    IF eventDate = None \/ dob = None THEN None
    ELSE LET eventDateObj == NewDate(eventDate[1])
             birthDateObj == NewDate(dob[1])
         IN  IF eventDateObj = None \/ birthDateObj = None THEN None
             ELSE LET ev == LocalFields(eventDateObj[1])
                      bd == LocalFields(birthDateObj[1])
                      age == ev.y - bd.y
                      monthDiff == ev.m - bd.m
                  IN  IF monthDiff < 0 \/ (monthDiff = 0 /\ ev.d < bd.d)
                      THEN Some(Yr(age - 1))
                      ELSE Some(Yr(age))

calculateMonthsDiff(startDate, endDate) ==
    IF startDate = None \/ endDate = None THEN None
    ELSE LET startDateObj == NewDate(startDate[1])
             endDateObj == NewDate(endDate[1])
         IN  IF startDateObj = None \/ endDateObj = None THEN None
             ELSE LET st == LocalFields(startDateObj[1])
                      en == LocalFields(endDateObj[1])
                      yearDiff == en.y - st.y
                      monthDiff == en.m - st.m
                      dayDiff == en.d - st.d
                      totalMonths == yearDiff * 12 + monthDiff
                  IN  IF dayDiff < 0 THEN Some(totalMonths - 1) ELSE Some(totalMonths)

----------------------------------------------------------------------------
(* Timeline items and the age/date normalizer *)

\* A title is the sequence of the lengths of its words.
Item(id, category_id, title, input_mode, start_age, end_age, use_max_age, start_date, end_date) ==
    [id |-> id, category_id |-> category_id, category |-> NoCategory, title |-> title,
     description |-> <<>>, input_mode |-> input_mode, start_age |-> start_age, end_age |-> end_age,
     use_max_age |-> use_max_age, start_date |-> start_date, end_date |-> end_date]

AgeItem(id, category_id, title, start_age, end_age, use_max_age) ==
    Item(id, category_id, title, "age", start_age, end_age, use_max_age, None, None)

DateItem(id, category_id, title, start_date, end_date, use_max_age) ==
    Item(id, category_id, title, "date", None, None, use_max_age, start_date, end_date)

\* A variant of the age-mode branch in which a stored end_age wins over
\* use_max_age.
ageModeAgesStoredEnd(item, range) ==
    [start_age |-> OrElse(item.start_age, 0),
     end_age |-> IF item.end_age # None THEN item.end_age
                 ELSE IF item.use_max_age THEN Some(range) ELSE None]

\* The age-mode branch of deriveItemAges: the stored ages, with the age
\* range as the end when use_max_age is set
ageModeAges(item, range) ==
    [start_age |-> OrElse(item.start_age, 0),
     end_age |-> IF item.use_max_age THEN Some(range) ELSE item.end_age]

\* deriveItemAges (Timeline): {start_age, end_age?}
deriveItemAges(item, dob, range) ==
    IF item.input_mode = "date" /\ item.start_date # None
    THEN LET startAge == OrElse(calculateAgeAtDate(item.start_date, dob), 0)
         IN  IF item.use_max_age
             THEN [start_age |-> startAge, end_age |-> Some(range)]
             ELSE IF item.end_date = None
             THEN [start_age |-> startAge, end_age |-> None]
             ELSE LET months == calculateMonthsDiff(item.start_date, item.end_date)
                  IN  IF months = None \/ months[1] < 3
                      THEN [start_age |-> startAge, end_age |-> None]
                      ELSE IF months[1] <= 12
                      THEN [start_age |-> startAge, end_age |-> Some(startAge + Yr(1))]
                      ELSE [start_age |-> startAge,
                            end_age |-> Some(OrElse(calculateAgeAtDate(item.end_date, dob),
                                                    startAge + Yr(1)))]
    ELSE ageModeAges(item, range)

\* A variant of the itemAges pass in which an item whose start age cannot be
\* computed also zeroes the start age of the items after it.
ItemAgesOfBadShared(its, dob, range) ==
    LET bad == {i \in DOMAIN its :
                   /\ its[i].input_mode = "date"
                   /\ its[i].start_date # None
                   /\ calculateAgeAtDate(its[i].start_date, dob) = None}
    IN  [id \in {its[i].id : i \in DOMAIN its} |->
            LET last == Max({i \in DOMAIN its : its[i].id = id})
                ages == deriveItemAges(its[last], dob, range)
            IN  IF \E b \in bad : b < last
                THEN [ages EXCEPT !.start_age = 0]
                ELSE ages]

\* const itemAges = new Map(); items.forEach(item => itemAges.set(item.id, ...)):
\* a later item with the same id overwrites an earlier one.
ItemAgesOf(its, dob, range) ==
    [id \in {its[i].id : i \in DOMAIN its} |->
        LET last == Max({i \in DOMAIN its : its[i].id = id})
        IN  deriveItemAges(its[last], dob, range)]

----------------------------------------------------------------------------
(* Timeline: the display range, widths and lanes of one render.  An operator
   that reads the component's props or the maps of the render takes them as
   its first argument: p is the props, r the props together with the maps
   computed so far in the render. *)

DEFAULT_TIMELINE_WIDTH == 1200

Abs(n) == IF n < 0 THEN -n ELSE n

Sgn(n) == IF n < 0 THEN -1 ELSE IF n > 0 THEN 1 ELSE 0

\* The filter LifeMapView applies to the items it hands to Timeline, for a
\* view mode
ViewFilter(mode, item) ==
    \E ages \in {deriveItemAges(item, dateOfBirth, ageRange)} :
        IF mode = "past"
        THEN /\ ages.start_age < currentAge
             /\ OrElse(ages.end_age, ages.start_age) <= ageRange
        ELSE IF mode = "future"
        THEN IF ages.end_age # None
             THEN ages.end_age[1] > currentAge /\ ages.end_age[1] <= ageRange
             ELSE ages.start_age > currentAge /\ ages.start_age <= ageRange
        ELSE TRUE

\* ... for the view mode of LifeMapView
ShownInView(item) == ViewFilter(viewMode, item)

VisibleItems == SelectSeq(items, ShownInView)

\* The props Timeline is rendered with
Props ==
    [items |-> VisibleItems, categories |-> categories, dateOfBirth |-> dateOfBirth,
     ageRange |-> ageRange, currentAge |-> currentAge, viewMode |-> viewMode,
     autoScale |-> autoScale, timelineWidth |-> timelineWidth, zoom |-> zoom]

\* The props with the itemAges map and the display range of the render
Scaled ==
    [items |-> VisibleItems, categories |-> categories, dateOfBirth |-> dateOfBirth,
     ageRange |-> ageRange, currentAge |-> currentAge, viewMode |-> viewMode,
     autoScale |-> autoScale, timelineWidth |-> timelineWidth, zoom |-> zoom,
     itemAges |-> itemAges, displayWindow |-> displayWindow]

\* ... and with the itemWidths map
Measured ==
    [items |-> VisibleItems, categories |-> categories, dateOfBirth |-> dateOfBirth,
     ageRange |-> ageRange, currentAge |-> currentAge, viewMode |-> viewMode,
     autoScale |-> autoScale, timelineWidth |-> timelineWidth, zoom |-> zoom,
     itemAges |-> itemAges, displayWindow |-> displayWindow,
     itemWidths |-> itemWidths]

\* ... and with the lanes and the heights
Stacked ==
    [items |-> VisibleItems, categories |-> categories, dateOfBirth |-> dateOfBirth,
     ageRange |-> ageRange, currentAge |-> currentAge, viewMode |-> viewMode,
     autoScale |-> autoScale, timelineWidth |-> timelineWidth, zoom |-> zoom,
     itemAges |-> itemAges, displayWindow |-> displayWindow,
     itemWidths |-> itemWidths, stackPositions |-> stackPositions,
     categoryMaxStacks |-> categoryMaxStacks, itemHeights |-> itemHeights,
     categoryMaxHeights |-> categoryMaxHeights]

\* const itemAges = new Map(...) of the render; getItemAges reads the map
TimelineItemAges(p) == ItemAgesOf(p.items, p.dateOfBirth, p.ageRange)

getItemAges(r, item) == r.itemAges[item.id]

IsPoint(r, item) == getItemAges(r, item).end_age = None

\* A variant of getCategory that falls back to the first category of the
\* list.
getCategoryOrFirst(r, item) ==
    IF item.category # NoCategory THEN item.category
    ELSE IF \E k \in DOMAIN r.categories : r.categories[k].id = item.category_id
    THEN r.categories[Max({k \in DOMAIN r.categories :
                              r.categories[k].id = item.category_id})]
    ELSE r.categories[1]

\* getCategory: the attached category, else the category map's entry for
\* category_id (the last category of the list with that id), else undefined.
getCategory(r, item) ==
    IF item.category # NoCategory THEN item.category
    ELSE IF \E k \in DOMAIN r.categories : r.categories[k].id = item.category_id
    THEN r.categories[Max({k \in DOMAIN r.categories :
                              r.categories[k].id = item.category_id})]
    ELSE NoCategory

\* calculateDisplayRange from the padding on (lines 1571-1632), for the
\* least start and the greatest end of the items.  padding is
\* max(itemSpan * 0.1, 5) years, held as ten times its value; Math.floor
\* and Math.ceil round to whole years.
DisplayRangeAround(p, minAge, maxAge) ==
    LET itemSpan == maxAge - minAge
        padding10 == Max({itemSpan, Yr(50)})
        calculatedStart0 ==
            Max({0, Yr(FloorDiv(10 * minAge - padding10, 10 * AgeUnit))})
        calculatedEnd == Yr(CeilDiv(10 * maxAge + padding10, 10 * AgeUnit))
        calculatedStart1 ==
            IF p.viewMode = "future" /\ calculatedStart0 < p.currentAge
            THEN p.currentAge ELSE calculatedStart0
        calculatedStart ==
            IF p.viewMode = "past" /\ calculatedEnd > p.currentAge
               /\ p.currentAge - calculatedStart1 < Yr(20)
            THEN Max({0, p.currentAge - Yr(20)}) ELSE calculatedStart1
        calculatedRange == calculatedEnd - calculatedStart
        finalRange0 == Max({calculatedRange, Yr(20)})
        finalStart0 == Max({0, calculatedStart})
        finalStart ==
            IF p.viewMode = "future" THEN Max({finalStart0, p.currentAge})
            ELSE finalStart0
        finalRange ==
            IF p.viewMode = "past" /\ finalStart + finalRange0 > p.currentAge
            THEN p.currentAge - finalStart ELSE finalRange0
        maxEndAge == finalStart + finalRange
    IN  IF maxEndAge > p.ageRange
        THEN LET maxAllowedRange == p.ageRange - finalStart
                 cappedRange == Min({finalRange, maxAllowedRange})
             IN  IF p.viewMode = "future"
                 THEN [startAge |-> Max({p.currentAge, p.ageRange - cappedRange}),
                       displayRange |-> cappedRange]
                 ELSE IF p.viewMode = "past"
                 THEN [startAge |-> Max({0, p.currentAge - cappedRange}),
                       displayRange |-> cappedRange]
                 ELSE [startAge |-> Max({0, p.ageRange - cappedRange}),
                       displayRange |-> cappedRange]
        ELSE [startAge |-> finalStart, displayRange |-> finalRange]

\* calculateDisplayRange.  (items is not empty where minAge and maxAge are
\* computed, so the code's Infinity branch is never taken.)
calculateDisplayRange(p) ==
    IF ~p.autoScale THEN [startAge |-> 0, displayRange |-> p.ageRange]
    ELSE IF Len(p.items) = 0
    THEN IF p.viewMode = "future"
         THEN LET futureRange == Min({p.ageRange - p.currentAge, Yr(40)})
              IN  [startAge |-> p.currentAge, displayRange |-> Max({futureRange, Yr(20)})]
         ELSE IF p.viewMode = "past"
         THEN [startAge |-> 0, displayRange |-> Max({p.currentAge, Yr(20)})]
         ELSE [startAge |-> 0, displayRange |-> Min({p.ageRange, Yr(40)})]
    ELSE LET ages == [i \in DOMAIN p.items |->
                         deriveItemAges(p.items[i], p.dateOfBirth, p.ageRange)]
         IN  Only({DisplayRangeAround(p, minAge, maxAge) :
                      minAge \in {Min({ages[i].start_age : i \in DOMAIN ages})},
                      maxAge \in {Max({OrElse(ages[i].end_age, ages[i].start_age) :
                                          i \in DOMAIN ages})}})

\* const { startAge: START_AGE, displayRange: AGE_RANGE } = calculateDisplayRange()
AGE_RANGE(r) == r.displayWindow.displayRange

START_AGE(r) == r.displayWindow.startAge

\* Pixel quantities are rationals with denominator AGE_RANGE (and tenths from
\* the zoom and the character width): a pixel value x is held as the integer
\* x * PX, with PX = 200 * |AGE_RANGE| (200 when AGE_RANGE is 0), AGE_RANGE
\* counted in 1/AgeUnit years as every age is.  A width may also be Infinity
\* (a division by zero).
Den(r) == IF AGE_RANGE(r) = 0 THEN 1 ELSE Abs(AGE_RANGE(r))

PX(r) == 200 * Den(r)

Fin(v) == [inf |-> FALSE, v |-> v]

Infinity == [inf |-> TRUE, v |-> 0]

\* Math.max of two widths
WMax(a, b) == IF a.inf \/ b.inf THEN Infinity ELSE Fin(Max({a.v, b.v}))

WPositive(w) == w.inf \/ w.v > 0

\* ageToX: 0 when AGE_RANGE is 0, else (age - START_AGE) / AGE_RANGE * width
ageToX(r, age) ==
    IF AGE_RANGE(r) = 0 THEN 0
    ELSE (age - START_AGE(r)) * Sgn(AGE_RANGE(r)) * r.timelineWidth * 200

\* text.length of a title
RECURSIVE WordsLength(_)
WordsLength(title) ==
    IF title = <<>> THEN 0 ELSE Head(title) + WordsLength(Tail(title))

TextLength(title) ==
    IF title = <<>> THEN 0 ELSE WordsLength(title) + Len(title) - 1

\* calculatePointItemWidth: max(50 * zoom, length * 11 * zoom * 0.6 + 4 * zoom)
calculatePointItemWidth(r, title) ==
    2 * r.zoom * Max({500, 66 * TextLength(title) + 40}) * Den(r)

\* TIMELINE_WIDTH / AGE_RANGE (oneYearWidth, yearWidth)
OneYearWidth(r) ==
    IF AGE_RANGE(r) = 0 THEN Infinity
    ELSE Fin(r.timelineWidth * 200 * AgeUnit * Sgn(AGE_RANGE(r)))

\* The width computed for one item (lines 1804-1822)
ItemWidth(r, item) ==
    LET ages == getItemAges(r, item)
    IN  IF ages.end_age # None
        THEN WMax(Fin(ageToX(r, ages.end_age[1]) - ageToX(r, ages.start_age)),
                  OneYearWidth(r))
        ELSE Fin(calculatePointItemWidth(r, item.title))

TimelineItemWidths(r) ==
    [id \in {r.items[i].id : i \in DOMAIN r.items} |->
        ItemWidth(r, r.items[Max({i \in DOMAIN r.items : r.items[i].id = id})])]

\* itemWidths.get(id) || 60
WidthOr60(r, id) ==
    LET w == r.itemWidths[id]
    IN  IF ~w.inf /\ w.v = 0 THEN Fin(60 * PX(r)) ELSE w

itemsOverlap(r, item1, item2) ==
    LET ages1 == getItemAges(r, item1)
        ages2 == getItemAges(r, item2)
    IN  IF ages1.end_age = None /\ ages2.end_age = None
        THEN LET item1X == ageToX(r, ages1.start_age)
                 item2X == ageToX(r, ages2.start_age)
                 item1Width == WidthOr60(r, item1.id).v
                 item2Width == WidthOr60(r, item2.id).v
                 item1Left == item1X - item1Width \div 2
                 item1Right == item1X + item1Width \div 2
                 item2Left == item2X - item2Width \div 2
                 item2Right == item2X + item2Width \div 2
             IN  item1Right > item2Left /\ item2Right > item1Left
        ELSE LET item1End == OrElse(ages1.end_age, ages1.start_age)
                 item2End == OrElse(ages2.end_age, ages2.start_age)
             IN  item1End > ages2.start_age /\ item2End > ages1.start_age

\* The sort of assignStackPositions: start_age, then end_age with point
\* items (Infinity) last; Array.prototype.sort is stable, so items the
\* comparator ties stay in the order of the list.
StackLess(r, its, i, j) ==
    LET a == getItemAges(r, its[i])
        b == getItemAges(r, its[j])
    IN  \/ a.start_age < b.start_age
        \/ /\ a.start_age = b.start_age
           /\ \/ a.end_age # None /\ (b.end_age = None \/ a.end_age[1] < b.end_age[1])
              \/ a.end_age = b.end_age /\ i < j

\* [...categoryItems].sort(...): the item at position k is the one with
\* k - 1 items before it.
SortedItems(r, its) ==
    [k \in 1 .. Len(its) |->
        its[CHOOSE i \in DOMAIN its :
                Cardinality({j \in DOMAIN its : j # i /\ StackLess(r, its, j, i)}) = k - 1]]

\* A variant of noOverlap with stack.some in place of stack.every.
noOverlapSome(r, item, stack) ==
    \E k \in DOMAIN stack : ~itemsOverlap(r, item, stack[k])

\* stack.every(stackItem => !itemsOverlap(item, stackItem))
noOverlap(r, item, stack) ==
    \A k \in DOMAIN stack : ~itemsOverlap(r, item, stack[k])

\* A variant of FirstFit that opens a new stack for every item.
AlwaysNewStack(r, item, stacks) == Len(stacks) + 1

\* The index of the first stack the item fits in, else of a new stack
FirstFit(r, item, stacks) ==
    Min({i \in DOMAIN stacks : noOverlap(r, item, stacks[i])} \cup {Len(stacks) + 1})

\* The placement loop: the first stack without an overlap, else a new stack.
RECURSIVE PlaceItems(_, _, _, _)
PlaceItems(r, sortedItems, stacks, stackMap) ==
    IF sortedItems = <<>> THEN stackMap
    ELSE Only({
             Only({PlaceItems(r, rest, stacks2, stackMap2) :
                      rest \in {Tail(sortedItems)},
                      stacks2 \in {IF at <= Len(stacks)
                                   THEN [stacks EXCEPT ![at] = Append(@, item)]
                                   ELSE Append(stacks, <<item>>)},
                      stackMap2 \in {[id \in DOMAIN stackMap \cup {item.id} |->
                                         IF id = item.id THEN at - 1 ELSE stackMap[id]]}}) :
             item \in {Head(sortedItems)},
             at \in {FirstFit(r, Head(sortedItems), stacks)}})

assignStackPositions(r, categoryItems) ==
    Only({PlaceItems(r, sortedItems, <<>>, <<>>) :
             sortedItems \in {SortedItems(r, categoryItems)}})

\* items.filter(item => getCategory(item) && getCategory(item).id === category.id)
CategoryItems(r, categoryId) ==
    SelectSeq(r.items, LAMBDA it : getCategory(r, it) # NoCategory
                                   /\ getCategory(r, it).id = categoryId)

CategoryIds(r) == {r.categories[k].id : k \in DOMAIN r.categories}

\* The positions of every category of the list
CategoryPositions(r) ==
    [c \in CategoryIds(r) |->
        Only({assignStackPositions(r, categoryItems) :
                 categoryItems \in {CategoryItems(r, c)}})]

\* stackPositions after categories.forEach (item ids are distinct, so every
\* item is set by the one category it belongs to)
TimelineStackPositions(r) ==
    Only({[id \in {r.items[i].id : i \in placed} |->
              LET i == Max({k \in placed : r.items[k].id = id})
              IN  positions[getCategory(r, r.items[i]).id][id]] :
             placed \in {{i \in DOMAIN r.items :
                             getCategory(r, r.items[i]) # NoCategory
                             /\ getCategory(r, r.items[i]).id \in CategoryIds(r)}},
             positions \in {CategoryPositions(r)}})

\* categoryMaxStacks: Math.max(...positions.values(), 0) + 1
TimelineCategoryMaxStacks(r) ==
    Only({[c \in CategoryIds(r) |->
              Max({positions[c][id] : id \in DOMAIN positions[c]} \cup {0}) + 1] :
             positions \in {CategoryPositions(r)}})

\* Vertical pixel values are multiples of 1/20 px (the zoom is in tenths and
\* centres are at half heights): a value y is held as the integer y * VY.
VY == 20

ROW_HEIGHT == 35 * VY

AGE_MARKER_HEIGHT == 30 * VY

SECTION_SPACING == 10 * VY

ITEM_HEIGHT == 24 * VY

ITEM_SPACING == 3 * VY

\* text.split(' '): the words of a title; the empty text is one empty word
Words(title) == IF title = <<>> THEN <<0>> ELSE title

\* The wrapping loop of calculateTextLayout: the number of lines pushed, with
\* currentLine held as its length (the empty line is falsy); a test line
\* fits when testLine.length * minCharWidth <= availableWidth - padding.
RECURSIVE WrapLines(_, _, _, _, _)
WrapLines(words, currentLine, lines, minCharWidth, room) ==
    IF words = <<>> THEN (IF currentLine > 0 THEN lines + 1 ELSE lines)
    ELSE Only({
             IF testLine * minCharWidth <= room
             THEN WrapLines(rest, testLine, lines, minCharWidth, room)
             ELSE WrapLines(rest, word, IF currentLine > 0 THEN lines + 1 ELSE lines,
                            minCharWidth, room) :
             word \in {Head(words)},
             rest \in {Tail(words)},
             testLine \in {IF currentLine > 0
                           THEN currentLine + 1 + Head(words) ELSE Head(words)}})

\* calculateTextLayout(text, availableWidth, isPointItem).itemHeight: the
\* text on one line when it fits at the base or at the minimum size, else
\* wrapped at the minimum size.  Widths are in units of 1 / PX px: the
\* character width 11 * zoom * 0.6 is 132 * zoom * Den, the minimum one
\* 9 * zoom * 0.6 is 108 * zoom * Den, the padding 4 * zoom or 8 * zoom.
calculateTextLayout(r, title, availableWidth, isPointItem) ==
    LET padding == (IF isPointItem THEN 80 ELSE 160) * r.zoom * Den(r)
        charWidth == 132 * r.zoom * Den(r)
        minCharWidth == 108 * r.zoom * Den(r)
        room == availableWidth.v - padding
    IN  IF availableWidth.inf \/ TextLength(title) * charWidth <= room
        THEN ITEM_HEIGHT
        ELSE IF TextLength(title) * minCharWidth <= room
        THEN ITEM_HEIGHT
        ELSE LET numLines == Max({1, WrapLines(Words(title), 0, 0, minCharWidth, room)})
             IN  Max({ITEM_HEIGHT, numLines * 26 * r.zoom + 4 * VY})

\* itemHeights.set(item.id, textLayout.itemHeight) (lines 1820-1821)
TimelineItemHeights(r) ==
    [id \in {r.items[i].id : i \in DOMAIN r.items} |->
        LET item == r.items[Max({i \in DOMAIN r.items : r.items[i].id = id})]
        IN  calculateTextLayout(r, item.title, r.itemWidths[id], IsPoint(r, item))]

\* itemHeights.get(id) || ITEM_HEIGHT
HeightOrDefault(heights, id) ==
    IF id \in DOMAIN heights /\ heights[id] # 0 THEN heights[id] ELSE ITEM_HEIGHT

\* Math.max(...itemsAtLevel.map(height), ITEM_HEIGHT) for the items of a
\* list whose lane (positions.get(id) || 0) is the level
MaxHeightAtLevel(its, positions, heights, level) ==
    Max({HeightOrDefault(heights, its[i].id) :
            i \in {k \in DOMAIN its :
                      (IF its[k].id \in DOMAIN positions THEN positions[its[k].id] ELSE 0)
                          = level}}
        \cup {ITEM_HEIGHT})

RECURSIVE SumTo(_, _)
SumTo(f, n) == IF n = 0 THEN 0 ELSE f[n] + SumTo(f, n - 1)

\* categoryMaxHeights: per category, the heights of its lanes (the tallest
\* item of each), the spacing between lanes and above and below, and at
\* least ROW_HEIGHT
TimelineCategoryMaxHeights(r) ==
    Only({[c \in CategoryIds(r) |->
              Only({Max({ROW_HEIGHT,
                         SumTo(stackHeights, maxStack)
                             + (maxStack - 1) * ITEM_SPACING + ITEM_SPACING * 2}) :
                       maxStack \in {Max({positions[c][id] : id \in DOMAIN positions[c]}
                                             \cup {0}) + 1},
                       stackHeights \in
                           {[level \in 1 .. Max({positions[c][id] : id \in DOMAIN positions[c]}
                                                    \cup {0}) + 1 |->
                                MaxHeightAtLevel(CategoryItems(r, c), positions[c], heights,
                                                 level - 1)]}})] :
             positions \in {CategoryPositions(r)},
             heights \in {TimelineItemHeights(r)}})

\* getCategoryRows: the categories of a section in ascending display_order
\* (Array.prototype.sort is stable: equal orders stay in list order)
SectionCategories(r, section) ==
    LET members == {i \in DOMAIN r.categories : r.categories[i].section = section}
        before(i, j) ==
            \/ r.categories[i].display_order < r.categories[j].display_order
            \/ /\ r.categories[i].display_order = r.categories[j].display_order
               /\ i < j
    IN  [k \in 1 .. Cardinality(members) |->
            r.categories[CHOOSE i \in members :
                            Cardinality({j \in members : before(j, i)}) = k - 1]]

topCategories(r) == SectionCategories(r, "top")

bottomCategories(r) == SectionCategories(r, "bottom")

\* A variant of RowOf that takes the display_order of the category as its row.
RowByDisplayOrder(sectionCategories, categoryId) ==
    IF \E k \in DOMAIN sectionCategories : sectionCategories[k].id = categoryId
    THEN sectionCategories[Max({k \in DOMAIN sectionCategories :
                                  sectionCategories[k].id = categoryId})].display_order
    ELSE 0

\* topRows[id] / bottomRows[id]: the index of the category in its section.
\* An id that is not in the section gives undefined, and the loop
\* for (i = 0; i < undefined; i++) runs as for row 0.
RowOf(sectionCategories, categoryId) ==
    IF \E k \in DOMAIN sectionCategories : sectionCategories[k].id = categoryId
    THEN Max({k \in DOMAIN sectionCategories : sectionCategories[k].id = categoryId}) - 1
    ELSE 0

getCategoryRowHeight(r, categoryId) ==
    IF categoryId \in DOMAIN r.categoryMaxHeights
    THEN r.categoryMaxHeights[categoryId]
    ELSE LET maxStack == IF categoryId \in DOMAIN r.categoryMaxStacks
                                /\ r.categoryMaxStacks[categoryId] # 0
                         THEN r.categoryMaxStacks[categoryId] ELSE 1
         IN  Max({ROW_HEIGHT, maxStack * (ITEM_HEIGHT + ITEM_SPACING) + ITEM_SPACING * 2})

\* for (i = 0; i < row; i++) { cat = sectionCategories[i]; if (cat) yOffset +=
\* getCategoryRowHeight(cat.id) }: the heights of the rows above, summed
RECURSIVE RowsHeight(_, _, _)
RowsHeight(r, sectionCategories, row) ==
    IF row <= 0 THEN 0
    ELSE (IF row \in DOMAIN sectionCategories
          THEN getCategoryRowHeight(r, sectionCategories[row].id) ELSE 0)
             + RowsHeight(r, sectionCategories, row - 1)

getTopSectionY(r, row, categoryId) ==
    RowsHeight(r, topCategories(r), row) + getCategoryRowHeight(r, categoryId) \div 2

getAgeBarY(r) ==
    RowsHeight(r, topCategories(r), Len(topCategories(r))) + SECTION_SPACING

getBottomSectionY(r, row, categoryId) ==
    getAgeBarY(r) + AGE_MARKER_HEIGHT + SECTION_SPACING
        + RowsHeight(r, bottomCategories(r), row)
        + getCategoryRowHeight(r, categoryId) \div 2

\* The centre y of the row of a category: getTopSectionY or
\* getBottomSectionY by its section, with its row in that section
SectionY(r, category) ==
    IF category.section = "top"
    THEN getTopSectionY(r, RowOf(topCategories(r), category.id), category.id)
    ELSE getBottomSectionY(r, RowOf(bottomCategories(r), category.id), category.id)

\* renderCategoryBackgrounds: one rect per category, at y - height / 2
TimelineCategoryBackgrounds(r) ==
    [c \in CategoryIds(r) |->
        LET category == r.categories[Max({k \in DOMAIN r.categories : r.categories[k].id = c})]
            height == getCategoryRowHeight(r, c)
        IN  [y |-> SectionY(r, category) - height \div 2, height |-> height]]

\* stackPositions.get(id) || 0
StackLevel(r, id) == IF id \in DOMAIN r.stackPositions THEN r.stackPositions[id] ELSE 0

\* A variant of StackOffset that takes every lane to be ITEM_HEIGHT tall.
StackOffsetFixed(r, categoryItems, stackLevel) ==
    stackLevel * (ITEM_HEIGHT + ITEM_SPACING)

\* stackOffset of renderItem: the lanes above the item, each as tall as its
\* tallest item, plus the spacing
RECURSIVE StackOffset(_, _, _)
StackOffset(r, categoryItems, stackLevel) ==
    IF stackLevel = 0 THEN 0
    ELSE MaxHeightAtLevel(categoryItems, r.stackPositions, r.itemHeights, stackLevel - 1)
             + ITEM_SPACING + StackOffset(r, categoryItems, stackLevel - 1)

\* renderItem, the vertical part: the centre y and the height of the item
ItemRow(r, item) ==
    LET itemCategory == getCategory(r, item)
        actualItemHeight == HeightOrDefault(r.itemHeights, item.id)
        stackOffset == StackOffset(r, CategoryItems(r, itemCategory.id),
                                   StackLevel(r, item.id))
        categoryHeight == getCategoryRowHeight(r, itemCategory.id)
    IN  [y |-> SectionY(r, itemCategory) - categoryHeight \div 2 + ITEM_SPACING
                   + stackOffset + actualItemHeight \div 2,
         height |-> actualItemHeight]

\* The rows of the items renderItem draws (those with a category)
TimelineItemRows(r) ==
    LET shown == {i \in DOMAIN r.items : getCategory(r, r.items[i]) # NoCategory}
    IN  [id \in {r.items[i].id : i \in shown} |->
            ItemRow(r, r.items[Max({i \in shown : r.items[i].id = id})])]

\* renderItem: the rectangle drawn for an item, if any: a point item's box
\* around its x, a bar clipped at the current age in the past and future
\* views and drawn only with a positive width.
ItemRect(r, item) ==
    LET ages == getItemAges(r, item)
        startX == ageToX(r, ages.start_age)
        width == WidthOr60(r, item.id)
    IN  IF getCategory(r, item) = NoCategory THEN None
        ELSE IF ages.end_age = None
        THEN Some([x |-> startX - width.v \div 2, width |-> width])
        ELSE LET currentAgeX == ageToX(r, r.currentAge)
                 endX == ageToX(r, ages.end_age[1])
                 clipped ==
                     IF r.viewMode = "past" /\ ages.end_age[1] > r.currentAge
                     THEN [x |-> startX, width |-> Fin(Max({0, currentAgeX - startX}))]
                     ELSE IF r.viewMode = "future" /\ ages.start_age < r.currentAge
                     THEN [x |-> currentAgeX, width |-> Fin(Max({0, endX - currentAgeX}))]
                     ELSE [x |-> startX, width |-> width]
             IN  IF WPositive(clipped.width) THEN Some(clipped) ELSE None

TimelineDrawnItems(r) ==
    LET rects == [i \in DOMAIN r.items |-> ItemRect(r, r.items[i])]
        shown == {i \in DOMAIN r.items : rects[i] # None}
    IN  [id \in {r.items[i].id : i \in shown} |->
            rects[Max({i \in shown : r.items[i].id = id})][1]]

\* renderConnectionLine: point items with a category
TimelineDrawnLines(r) ==
    {r.items[i].id : i \in {k \in DOMAIN r.items :
                               IsPoint(r, r.items[k])
                               /\ getCategory(r, r.items[k]) # NoCategory}}

\* renderAgeMarkers: for (age = START_AGE; age <= START_AGE + AGE_RANGE; age++)
TimelineAgeMarkers(r) ==
    {START_AGE(r) + Yr(k) : k \in 0 .. FloorDiv(AGE_RANGE(r), AgeUnit)}

\* The divisions TIMELINE_WIDTH / AGE_RANGE the render executes with
\* AGE_RANGE = 0: oneYearWidth for every bar item, yearWidth in
\* renderAgeMarkers.  (ageToX returns before dividing.)
TimelineZeroDivisions(r) ==
    IF AGE_RANGE(r) # 0 THEN {}
    ELSE {"yearWidth"}
         \cup (IF \E i \in DOMAIN r.items : ~IsPoint(r, r.items[i])
               THEN {"oneYearWidth"} ELSE {})

\* One render of Timeline with the props of the next state: each map is
\* computed from the props and from the maps computed before it.
Paint ==
    /\ rendered' = TRUE
    /\ \E p \in {Props'} :
          /\ itemAges' = TimelineItemAges(p)
          /\ displayWindow' = calculateDisplayRange(p)
    /\ \E r \in {Scaled'} :
          itemWidths' = TimelineItemWidths(r)
    /\ \E r \in {Measured'} :
          /\ stackPositions' = TimelineStackPositions(r)
          /\ categoryMaxStacks' = TimelineCategoryMaxStacks(r)
          /\ drawnItems' = TimelineDrawnItems(r)
          /\ drawnLines' = TimelineDrawnLines(r)
          /\ ageMarkers' = TimelineAgeMarkers(r)
          /\ zeroDivisions' = TimelineZeroDivisions(r)
          /\ itemHeights' = TimelineItemHeights(r)
          /\ categoryMaxHeights' = TimelineCategoryMaxHeights(r)
    /\ \E r \in {Stacked'} :
          /\ categoryBackgrounds' = TimelineCategoryBackgrounds(r)
          /\ ageBarY' = getAgeBarY(r)
          /\ itemRows' = TimelineItemRows(r)

----------------------------------------------------------------------------
(* Category manager *)

Sections == {"top", "bottom"}
Names == {"a", "b", "c"}    \* names matching /^[a-z0-9_]+$/
BadNames == {""}                 \* the inputs strip every other character: only "" is left

SectionCount(cats, section) == Cardinality({i \in DOMAIN cats : cats[i].section = section})

\* A variant of validateForm without the uniqueness check of the name
validateFormAnyName ==
    LET nameErr == formData.name = "" \/ formData.name \notin Names
        maxDisplayOrder == SectionCount(categories, formData.section)
        orderErr == formData.display_order < 0 \/ formData.display_order > maxDisplayOrder
    IN  (IF nameErr THEN {"name"} ELSE {}) \cup (IF orderErr THEN {"display_order"} ELSE {})

\* validateForm: the set of fields in error (label is not modelled: it is
\* display text only and is taken to be filled in).
validateForm ==
    LET nameErr ==
            \/ formData.name = ""
            \/ formData.name \notin Names
            \/ \E i \in DOMAIN categories :
                  /\ categories[i].name = formData.name
                  /\ (editingCategory = NoId \/ categories[i].id # editingCategory)
        maxDisplayOrder == SectionCount(categories, formData.section)
        orderErr == formData.display_order < 0 \/ formData.display_order > maxDisplayOrder
    IN  (IF nameErr THEN {"name"} ELSE {}) \cup (IF orderErr THEN {"display_order"} ELSE {})

\* The comparator of both sorts: display_order, then id.
CatLess(a, b) ==
    \/ a.display_order < b.display_order
    \/ (a.display_order = b.display_order /\ a.id < b.id)

\* Array.prototype.sort with that comparator, a strict total order on
\* categories with distinct ids: the one sequence listing S in that order.
RECURSIVE SortCats(_)
SortCats(S) ==
    IF S = {} THEN <<>>
    ELSE LET first == CHOOSE x \in S : \A y \in S \ {x} : CatLess(x, y)
         IN  <<first>> \o SortCats(S \ {first})

\* forEach((cat, index) => updatedCategories[findIndex(cat.id)].display_order = index)
Reassign(updated, ordered) ==
    [i \in DOMAIN updated |->
        IF \E k \in DOMAIN ordered : ordered[k].id = updated[i].id
        THEN [updated[i] EXCEPT !.display_order =
                 (CHOOSE k \in DOMAIN ordered : ordered[k].id = updated[i].id) - 1]
        ELSE updated[i]]

\* handleSave, lines 113-172: the category list after a valid save.
SavedCategories ==
    LET updatedCategories ==
            IF editingCategory # NoId
            THEN [i \in DOMAIN categories |->
                     IF categories[i].id = editingCategory
                     THEN [id |-> categories[i].id, name |-> formData.name,
                           section |-> formData.section,
                           display_order |-> formData.display_order]
                     ELSE categories[i]]
            ELSE Append(categories,
                        [id |-> nextCategoryId, name |-> formData.name,
                         section |-> formData.section,
                         display_order |-> formData.display_order])
        targetId == IF editingCategory # NoId THEN editingCategory ELSE nextCategoryId
        sectionCategories == {c \in Range(updatedCategories) : c.section = formData.section}
        maxDisplayOrder == SectionCount(categories, formData.section)
        hasDuplicates ==
            Cardinality(sectionCategories)
                # Cardinality({c.display_order : c \in sectionCategories})
        isInsertingInMiddle == formData.display_order < maxDisplayOrder
        targets == {c \in Range(updatedCategories) : c.id = targetId}
    IN  IF (isInsertingInMiddle \/ hasDuplicates) /\ targets # {}
        THEN LET targetCategory == CHOOSE c \in targets : TRUE
                 otherCategories ==
                     SortCats({c \in sectionCategories : c.id # targetId})
                 ordered == Splice(otherCategories, formData.display_order, targetCategory)
             IN  Reassign(updatedCategories, ordered)
        ELSE updatedCategories

\* handleCategoriesChange: items get their category reference refreshed.
RefreshItems(its, cats) ==
    [i \in DOMAIN its |->
        [its[i] EXCEPT !.category =
            IF \E k \in DOMAIN cats : cats[k].id = its[i].category_id
            THEN cats[CHOOSE k \in DOMAIN cats : cats[k].id = its[i].category_id]
            ELSE NoCategory]]

\* The paths the open and save dialogs may return
Paths == {1, 2}

\* a || b for strings
TitleOr(a, b) == IF a # "" THEN a ELSE b

\* LifeMapView showing a life map that has no file yet and is as it was
\* when it arrived; no file on the disk.
FileIdle ==
    /\ page = "life-map"
    /\ lifeMap = Some([title |-> "My Life Map", zoom |-> Some(zoom)])
    /\ tempTitle = "My Life Map"
    /\ showSettingsOnNewFile = FALSE
    /\ lastSavedStateRef =
          Some([items |-> items, categories |-> categories, title |-> "My Life Map",
                date_of_birth |-> dateOfBirth, age_range |-> ageRange, zoom |-> zoom])
    /\ showCloseWarning = FALSE
    /\ alertShown = None
    /\ currentFilePath = None
    /\ disk = [p \in Paths |-> None]
    /\ storedRecentFiles = <<>>

MAX_RECENT_FILES == 10

\* A variant of add that keeps an entry of the same path
recentFilesAddKeeping(files, path, title) ==
    LET updated == <<[path |-> path, title |-> title]>> \o files
    IN  SubSeq(updated, 1, Min({Len(updated), MAX_RECENT_FILES}))

\* recentFiles.add(path, title): the list it stores.  (lastAccessed is
\* stored with each entry and read nowhere.)
recentFilesAdd(files, path, title) ==
    LET filtered == SelectSeq(files, LAMBDA f : f.path # path)
        updated == <<[path |-> path, title |-> title]>> \o filtered
    IN  SubSeq(updated, 1, Min({Len(updated), MAX_RECENT_FILES}))

\* recentFiles.remove(path): the list it stores
recentFilesRemove(files, path) == SelectSeq(files, LAMBDA f : f.path # path)

\* fileAPI.saveFile(lifeMap, filePath), the path it writes: filePath, or
\* the answer of the save dialog, <<>> when the dialog is cancelled ('No
\* file selected' is thrown)
saveFileTargets(filePath) ==
    IF filePath # None THEN {filePath} ELSE {None} \cup {Some(p) : p \in Paths}

\* fileAPI.saveFile, the LifeMapData it writes: the items go without their
\* category objects
LifeMapData(map) ==
    [title |-> map.title, date_of_birth |-> map.date_of_birth,
     age_range |-> map.age_range, zoom |-> Some(OrElse(map.zoom, 10)),
     categories |-> map.categories,
     items |-> [i \in DOMAIN map.items |-> [map.items[i] EXCEPT !.category = NoCategory]]]

\* LifeMapView as constructed: the useState and useRef initial values
NoLifeMap ==
    /\ page = "life-map"
    /\ lifeMap = None
    /\ tempTitle = ""
    /\ showSettingsOnNewFile = FALSE
    /\ lastSavedStateRef = None
    /\ showCloseWarning = FALSE

\* The components a specification does not drive stay as constructed.
LayoutIdle ==
    /\ viewMode = "all"
    /\ autoScale = FALSE
    /\ timelineWidth = DEFAULT_TIMELINE_WIDTH
    /\ zoom = 10

ViewIdle ==
    /\ dateOfBirth = None
    /\ currentAge = 0
    /\ ageRange = Yr(80)
    /\ tzBehindUTC = FALSE
    /\ LayoutIdle

TimelineIdle ==
    /\ rendered = FALSE
    /\ itemAges = <<>>
    /\ displayWindow = [startAge |-> 0, displayRange |-> 0]
    /\ itemWidths = <<>>
    /\ stackPositions = <<>>
    /\ categoryMaxStacks = <<>>
    /\ drawnItems = <<>>
    /\ drawnLines = {}
    /\ ageMarkers = {}
    /\ zeroDivisions = {}
    /\ itemHeights = <<>>
    /\ categoryMaxHeights = <<>>
    /\ categoryBackgrounds = <<>>
    /\ ageBarY = 0
    /\ itemRows = <<>>

\* The modals closed, and the next item id of initializeLifeMap:
\* Math.max(0, ...items.map(i => i.id)) + 1
ItemFormIdle ==
    /\ nextItemId = Max({items[i].id : i \in DOMAIN items} \cup {0}) + 1
    /\ showItemForm = FALSE
    /\ editingItem = None
    /\ selectedCategory = None
    /\ showCategoryManager = FALSE

CatIdle ==
    /\ nextCategoryId = Len(categories) + 1
    /\ showForm = FALSE
    /\ editingCategory = NoId
    /\ formData = [name |-> "", section |-> "top", display_order |-> 0]
    /\ errors = {}

EmptyForm == [name |-> "", section |-> "top", display_order |-> 0]

handleCreate ==
    /\ UNCHANGED <<viewVars, fileVars, timelineVars, itemFormVars>>
    /\ showCategoryManager
    /\ ~showForm
    /\ Len(categories) < MaxCategories
    /\ nextCategoryId <= MaxCategoryId
    /\ editingCategory' = NoId
    /\ errors' = {}
    /\ formData' = [name |-> "", section |-> "top",
                    display_order |-> SectionCount(categories, "top")]
    /\ showForm' = TRUE
    /\ UNCHANGED <<categories, nextCategoryId, items>>

handleEdit ==
    /\ UNCHANGED <<viewVars, fileVars, timelineVars, itemFormVars>>
    /\ showCategoryManager
    /\ ~showForm
    /\ \E i \in DOMAIN categories :
          /\ editingCategory' = categories[i].id
          /\ formData' = [name |-> categories[i].name, section |-> categories[i].section,
                          display_order |-> categories[i].display_order]
    /\ errors' = {}
    /\ showForm' = TRUE
    /\ UNCHANGED <<categories, nextCategoryId, items>>

\* The name input (disabled while editing); the label input's auto-generated
\* name writes the same field.
SetName ==
    /\ UNCHANGED <<viewVars, fileVars, timelineVars, itemFormVars>>
    /\ showCategoryManager
    /\ showForm
    /\ editingCategory = NoId
    /\ \E n \in Names \cup BadNames : formData' = [formData EXCEPT !.name = n]
    /\ errors' = errors \ {"name"}
    /\ UNCHANGED <<categories, nextCategoryId, items, showForm, editingCategory>>

\* The section select: the display order is reset to the end of the section.
SetSection ==
    /\ UNCHANGED <<viewVars, fileVars, timelineVars, itemFormVars>>
    /\ showCategoryManager
    /\ showForm
    /\ \E s \in Sections \ {formData.section} :
          formData' = [formData EXCEPT !.section = s,
                                       !.display_order = SectionCount(categories, s)]
    /\ UNCHANGED <<categories, nextCategoryId, items, showForm, editingCategory, errors>>

\* The display-order input: the typed value is clamped to 0..count.
SetDisplayOrder ==
    /\ UNCHANGED <<viewVars, fileVars, timelineVars, itemFormVars>>
    /\ showCategoryManager
    /\ showForm
    /\ \E value \in 0 .. MaxCategories + 1 :
          LET maxDisplayOrder == SectionCount(categories, formData.section)
              clampedValue == Max({0, Min({maxDisplayOrder, value})})
          IN  formData' = [formData EXCEPT !.display_order = clampedValue]
    /\ errors' = errors \ {"display_order"}
    /\ UNCHANGED <<categories, nextCategoryId, items, showForm, editingCategory>>

CancelForm ==
    /\ UNCHANGED <<viewVars, fileVars, timelineVars, itemFormVars>>
    /\ showCategoryManager
    /\ showForm
    /\ showForm' = FALSE
    /\ editingCategory' = NoId
    /\ UNCHANGED <<categories, nextCategoryId, items, formData, errors>>

handleSaveRejected ==
    /\ UNCHANGED <<viewVars, fileVars, timelineVars, itemFormVars>>
    /\ showCategoryManager
    /\ showForm
    /\ validateForm # {}
    /\ errors' = validateForm
    /\ UNCHANGED <<categories, nextCategoryId, items, showForm, editingCategory, formData>>

handleSaveAccepted ==
    /\ UNCHANGED <<viewVars, fileVars, timelineVars, itemFormVars>>
    /\ showCategoryManager
    /\ showForm
    /\ validateForm = {}
    /\ categories' = SavedCategories
    /\ nextCategoryId' = IF editingCategory = NoId THEN nextCategoryId + 1 ELSE nextCategoryId
    /\ items' = RefreshItems(items, SavedCategories)
    /\ showForm' = FALSE
    /\ editingCategory' = NoId
    /\ errors' = {}
    /\ UNCHANGED formData

handleSave == handleSaveRejected \/ handleSaveAccepted

\* handleDelete(id) with the confirm dialog answered OK (a dismissed dialog
\* changes nothing).
DeletedCategories(id) ==
    LET idx == {i \in DOMAIN categories : categories[i].id = id}
        categoryToDelete == categories[CHOOSE i \in idx : TRUE]
        updatedCategories == SelectSeq(categories, LAMBDA c : c.id # id)
        sectionCategories ==
            SortCats({c \in Range(updatedCategories) : c.section = categoryToDelete.section})
    IN  Reassign(updatedCategories, sectionCategories)

handleDelete ==
    /\ UNCHANGED <<viewVars, fileVars, timelineVars, itemFormVars>>
    /\ showCategoryManager
    /\ ~showForm
    /\ \E i \in DOMAIN categories :
          LET id == categories[i].id
          IN  /\ categories' = DeletedCategories(id)
              /\ items' = RefreshItems(items, DeletedCategories(id))
    /\ UNCHANGED <<nextCategoryId, showForm, editingCategory, formData, errors>>

\* Dense: the display orders of each section are exactly 0..count-1.
Dense(cats) ==
    \A s \in Sections :
        LET members == {i \in DOMAIN cats : cats[i].section = s}
        IN  /\ {cats[i].display_order : i \in members} = 0 .. (Cardinality(members) - 1)
            /\ \A i, j \in members : cats[i].display_order = cats[j].display_order => i = j

\* The life maps a session may start from (initializeLifeMap): ids 1..n,
\* distinct names, dense sections; every item references a category of the map.
InitCategoryLists ==
    LET NameOf == <<"a", "b", "c", "d">>
        Lists(n) == {cs \in [1 .. n -> [id : 1 .. n, name : Names, section : Sections,
                                         display_order : 0 .. (n - 1)]] :
                        /\ \A i \in 1 .. n : cs[i].id = i /\ cs[i].name = NameOf[i]
                        /\ Dense(cs)}
    IN  UNION {Lists(n) : n \in 0 .. InitCategories}

CatInit ==
    /\ categories \in InitCategoryLists
    /\ nextCategoryId = Len(categories) + 1
    /\ \E n \in 0 .. InitItems :
          \E refs \in [1 .. n -> 1 .. Len(categories)] :
              items = RefreshItems([i \in 1 .. n |-> AgeItem(i, refs[i], <<1>>, <<0>>, <<>>, FALSE)],
                                   categories)
    /\ showForm = FALSE
    /\ editingCategory = NoId
    /\ formData = EmptyForm
    /\ errors = {}
    /\ ViewIdle
    /\ TimelineIdle
    /\ FileIdle
    /\ nextItemId = Max({items[i].id : i \in DOMAIN items} \cup {0}) + 1
    /\ showItemForm = FALSE
    /\ editingItem = None
    /\ selectedCategory = None
    /\ showCategoryManager = TRUE

CatNext ==
    \/ handleCreate
    \/ handleEdit
    \/ SetName
    \/ SetSection
    \/ SetDisplayOrder
    \/ CancelForm
    \/ handleSave
    \/ handleDelete

SpecCat == CatInit /\ [][CatNext]_vars

----------------------------------------------------------------------------
(* The normalizer driven through Timeline renders and project settings *)

Years == 2010 .. (2010 + MaxYearSpan)

EventDays == {1, 15, 28, 31}

EventDates ==
    {dt \in {Date(y, m, d) : y \in Years, m \in 1 .. 12, d \in EventDays} : ValidDate(dt)}

StartDates == {Date(2010, 1, 31), Date(2010, 3, 1), Date(2010, 6, 15)}

ValidBirthDates == {Date(2000, 1, 1), Date(2000, 6, 15)}

BirthDates == {None, Some(BadDate)} \cup {Some(dt) : dt \in ValidBirthDates}

InitAgeRanges == {Yr(80)}

SettingsAgeRanges == {Yr(5), Yr(60), Yr(80)}

\* The item under study: date mode with any mix of missing, unparsable and
\* valid dates, or age mode; with use_max_age an end may still be stored.
StudyItems ==
    {DateItem(1, 1, <<1>>, st, en, FALSE) :
        st \in {None, Some(BadDate)} \cup {Some(dt) : dt \in StartDates},
        en \in {None, Some(BadDate)} \cup {Some(dt) : dt \in EventDates}}
    \cup {DateItem(1, 1, <<1>>, st, en, TRUE) :
        st \in {None, Some(BadDate)} \cup {Some(dt) : dt \in StartDates},
        en \in {None, Some(Date(2011, 6, 15))}}
    \cup {AgeItem(1, 1, <<1>>, sa, ea, um) :
        sa \in {None, Some(0), Some(Yr(30))}, ea \in {None, Some(Yr(40))}, um \in BOOLEAN}

\* Well-formed items rendered in the same pass.
OtherItems ==
    {AgeItem(2, 1, <<1>>, Some(Yr(20)), Some(Yr(25)), FALSE),
     DateItem(2, 1, <<1>>, Some(Date(2010, 6, 15)), Some(Date(2011, 12, 15)), FALSE)}

OneCategory == <<[id |-> 1, name |-> "a", section |-> "top", display_order |-> 0]>>

AgesInit ==
    /\ categories = OneCategory
    /\ CatIdle
    /\ \E it \in StudyItems :
          \/ items = <<it>>
          \/ \E o \in OtherItems : items \in {<<it, o>>, <<o, it>>}
    /\ dateOfBirth \in BirthDates
    /\ ageRange \in InitAgeRanges
    /\ tzBehindUTC \in BOOLEAN
    /\ currentAge = OrElse(calculateAge(dateOfBirth), 0)
    /\ LayoutIdle
    /\ TimelineIdle
    /\ FileIdle
    /\ ItemFormIdle

\* Timeline(props): one render of the component.
RenderTimeline ==
    /\ page = "life-map"
    /\ ~rendered
    /\ UNCHANGED <<catVars, viewVars, fileVars, itemFormVars>>
    /\ Paint

\* handleUpdateProjectSettings with the form holding a date of birth and an
\* age range; a new life map without a file path is then saved to the path
\* the save dialog returns (a cancelled dialog or a failed write is caught
\* and leaves the map unsaved).  The state change re-renders the Timeline.
handleUpdateProjectSettings ==
    /\ rendered
    /\ lifeMap # None
    /\ \E tempDateOfBirth \in ValidBirthDates, tempAgeRange \in SettingsAgeRanges :
          LET age == calculateAge(Some(tempDateOfBirth))
              updatedMap == [title |-> TitleOr(tempTitle, "My Life Map"),
                             date_of_birth |-> Some(tempDateOfBirth),
                             age_range |-> Some(tempAgeRange),
                             zoom |-> lifeMap[1].zoom,
                             categories |-> categories, items |-> items]
          IN  /\ ~(age = None \/ age[1] < 0 \/ age[1] > Yr(200))
              /\ ~(tempAgeRange < Yr(10) \/ tempAgeRange > Yr(200))
              /\ dateOfBirth' = Some(tempDateOfBirth)
              /\ currentAge' = OrElse(age, 0)
              /\ ageRange' = tempAgeRange
              /\ IF showSettingsOnNewFile /\ currentFilePath = None
                 THEN \E target \in saveFileTargets(None), written \in BOOLEAN :
                        IF target # None /\ written
                        THEN /\ disk' = [disk EXCEPT ![target[1]] = Some(LifeMapData(updatedMap))]
                             /\ storedRecentFiles' =
                                   recentFilesAdd(storedRecentFiles, target[1], updatedMap.title)
                             /\ currentFilePath' = target
                             /\ lastSavedStateRef' =
                                   Some([items |-> items, categories |-> categories,
                                         title |-> TitleOr(tempTitle, "My Life Map"),
                                         date_of_birth |-> Some(tempDateOfBirth),
                                         age_range |-> tempAgeRange, zoom |-> zoom])
                        ELSE UNCHANGED <<disk, storedRecentFiles, currentFilePath,
                                         lastSavedStateRef>>
                 ELSE UNCHANGED <<disk, storedRecentFiles, currentFilePath, lastSavedStateRef>>
    /\ lifeMap' = Some([lifeMap[1] EXCEPT !.title = TitleOr(tempTitle, "My Life Map")])
    /\ showSettingsOnNewFile' = FALSE
    /\ alertShown' = None
    /\ UNCHANGED <<catVars, itemFormVars, viewMode, autoScale, timelineWidth, zoom, tzBehindUTC,
                   page, tempTitle, showCloseWarning>>
    /\ Paint

AgesNext == RenderTimeline \/ handleUpdateProjectSettings

SpecAges == AgesInit /\ [][AgesNext]_vars

----------------------------------------------------------------------------
(* The Timeline under the view buttons of LifeMapView *)

ViewModes == {"all", "past", "future"}

\* setViewMode(v) of the All / Past / Future buttons: Timeline is rendered
\* again with the filtered items and autoScale = (viewMode !== 'all').
setViewMode ==
    /\ rendered
    /\ \E v \in ViewModes \ {viewMode} :
          /\ viewMode' = v
          /\ autoScale' = (v # "all")
    /\ UNCHANGED <<catVars, itemFormVars, dateOfBirth, ageRange, currentAge, timelineWidth, zoom, tzBehindUTC, fileVars>>
    /\ Paint

TimelineNext == RenderTimeline \/ setViewMode

TopAndBottom ==
    <<[id |-> 1, name |-> "a", section |-> "top", display_order |-> 0],
      [id |-> 2, name |-> "b", section |-> "bottom", display_order |-> 0]>>

\* Sequences of at most n elements of S
SeqUpTo(S, n) == UNION {[1 .. k -> S] : k \in 0 .. n}

\* Items as handleSaveItem stores them, with distinct ids
WithIds(its) == [i \in DOMAIN its |-> [its[i] EXCEPT !.id = i]]

\* Dates of birth by the current age they give today
BirthDateOfAge(age) == Date(Today.y - age, 1, 1)

LoadedAt(ages, ranges) ==
    /\ tzBehindUTC = FALSE
    /\ \E age \in ages :
          /\ dateOfBirth = (IF age = 0 THEN None ELSE Some(BirthDateOfAge(age)))
          /\ currentAge = OrElse(calculateAge(dateOfBirth), 0)
    /\ ageRange \in ranges
    /\ CatIdle
    /\ LayoutIdle
    /\ TimelineIdle
    /\ FileIdle
    /\ ItemFormIdle

(* Display range: a life map loaded with up to MaxRangeItems items *)

RangeAges == {0, 10, 30, 70, 90}

RangeAgeRanges == {Yr(10), Yr(20), Yr(40), Yr(80), Yr(200)}

RangeItems ==
    {AgeItem(0, 1, <<1>>, Some(Yr(5)), None, FALSE),
     AgeItem(0, 1, <<1>>, Some(Yr(25)), None, FALSE),
     AgeItem(0, 1, <<1>>, Some(Yr(75)), None, FALSE),
     AgeItem(0, 1, <<1>>, Some(Yr(20)), Some(Yr(45)), FALSE),
     AgeItem(0, 1, <<1>>, Some(0), None, TRUE),
     AgeItem(0, 2, <<1>>, Some(Yr(60)), Some(Yr(130)), FALSE)}

RangeInit ==
    /\ categories = TopAndBottom
    /\ \E its \in SeqUpTo(RangeItems, MaxRangeItems) : items = WithIds(its)
    /\ LoadedAt(RangeAges, RangeAgeRanges)

SpecRange == RangeInit /\ [][TimelineNext]_vars

(* Lanes and shapes: a life map loaded with up to MaxLayoutItems items, some
   of them with a category_id that is in no category *)

LayoutAges == {21}

LayoutAgeRanges == {0, Yr(20), Yr(80)}

OrphanCategoryId == 9

LayoutItems ==
    {AgeItem(0, 1, <<1>>, Some(Yr(20)), Some(Yr(25)), FALSE),
     AgeItem(0, 1, <<1>>, Some(Yr(20)), None, FALSE),
     AgeItem(0, 1, <<1>>, Some(Yr(22)), None, FALSE),
     AgeItem(0, 1, <<12>>, Some(Yr(22)), None, FALSE),
     AgeItem(0, 2, <<1>>, Some(Yr(20)), Some(Yr(20)), FALSE),
     AgeItem(0, 2, <<1>>, Some(Yr(20) + 1), Some(Yr(25)), FALSE),
     AgeItem(0, 2, <<1>>, Some(Yr(20) + 1), Some(Yr(21)), FALSE),
     AgeItem(0, OrphanCategoryId, <<1>>, Some(Yr(22)), None, FALSE),
     AgeItem(0, OrphanCategoryId, <<1>>, Some(Yr(22)), Some(Yr(25)), FALSE)}

LayoutInit ==
    /\ categories = TopAndBottom
    /\ \E its \in SeqUpTo(LayoutItems, MaxLayoutItems) : items = WithIds(its)
    /\ LoadedAt(LayoutAges, LayoutAgeRanges)

SpecLayout == LayoutInit /\ [][TimelineNext]_vars

(* Views: a life map loaded with up to MaxViewItems items, at a current age
   of 0, below, at and above the ages of the items and above the age range;
   one item is dated before the date of birth and one is in no category *)

ViewAges == {0, 10, 30, 90}

ViewAgeRanges == {Yr(10), Yr(80), Yr(200)}

ViewItems ==
    {AgeItem(0, 1, <<1>>, Some(Yr(30)), None, FALSE),
     AgeItem(0, 1, <<1>>, Some(Yr(30)), Some(Yr(30)), FALSE),
     AgeItem(0, 1, <<1>>, Some(Yr(5)), None, FALSE),
     AgeItem(0, 1, <<1>>, Some(Yr(75)), None, FALSE),
     AgeItem(0, 2, <<1>>, Some(Yr(20)), Some(Yr(45)), FALSE),
     AgeItem(0, 2, <<1>>, Some(0), None, TRUE),
     DateItem(0, 1, <<1>>, Some(Date(Today.y - 1, 6, 15)), None, FALSE),
     AgeItem(0, OrphanCategoryId, <<1>>, Some(Yr(60)), None, FALSE)}

ViewInit ==
    /\ categories = TopAndBottom
    /\ \E its \in SeqUpTo(ViewItems, MaxViewItems) : items = WithIds(its)
    /\ tzBehindUTC = FALSE
    /\ \E age \in ViewAges :
          /\ dateOfBirth = Some(BirthDateOfAge(age))
          /\ currentAge = OrElse(calculateAge(dateOfBirth), 0)
    /\ ageRange \in ViewAgeRanges
    /\ CatIdle
    /\ LayoutIdle
    /\ TimelineIdle
    /\ FileIdle
    /\ ItemFormIdle

SpecViews == ViewInit /\ [][TimelineNext]_vars

(* Bands and rows: a life map loaded with up to three categories and up to
   MaxBandItems items, some with a title that wraps, at a zoom of 0.8, 1.0
   or 1.4 *)

Cat(id, name, section, display_order) ==
    [id |-> id, name |-> name, section |-> section, display_order |-> display_order]

\* Category lists with distinct ids: one per section, two in the top section
\* out of list order, equal and skipped display orders, no top section
BandCategoryLists ==
    {TopAndBottom,
     <<Cat(1, "a", "top", 1), Cat(2, "b", "top", 0), Cat(3, "c", "bottom", 0)>>,
     <<Cat(1, "a", "top", 0), Cat(2, "b", "top", 0), Cat(3, "c", "bottom", 2)>>,
     <<Cat(1, "a", "bottom", 0), Cat(2, "b", "bottom", 1)>>}

BandItems ==
    {AgeItem(0, 1, <<1>>, Some(Yr(20)), Some(Yr(25)), FALSE),
     AgeItem(0, 1, <<12, 12>>, Some(Yr(20)), Some(Yr(25)), FALSE),
     AgeItem(0, 1, <<1>>, Some(Yr(22)), None, FALSE),
     AgeItem(0, 2, <<12, 12, 12>>, Some(Yr(21)), Some(Yr(30)), FALSE),
     AgeItem(0, 2, <<12>>, Some(Yr(22)), None, FALSE),
     AgeItem(0, 3, <<12, 12>>, Some(Yr(20)), Some(Yr(22)), FALSE),
     AgeItem(0, OrphanCategoryId, <<12, 12>>, Some(Yr(22)), Some(Yr(25)), FALSE)}

BandZooms == {8, 10, 14}

BandAgeRanges == {Yr(20), Yr(80)}

BandInit ==
    /\ categories \in BandCategoryLists
    /\ \E its \in SeqUpTo(BandItems, MaxBandItems) : items = WithIds(its)
    /\ tzBehindUTC = FALSE
    /\ dateOfBirth = Some(BirthDateOfAge(21))
    /\ currentAge = OrElse(calculateAge(dateOfBirth), 0)
    /\ ageRange \in BandAgeRanges
    /\ viewMode = "all"
    /\ autoScale = FALSE
    /\ zoom \in BandZooms
    /\ timelineWidth = (DEFAULT_TIMELINE_WIDTH * zoom) \div 10
    /\ CatIdle
    /\ TimelineIdle
    /\ FileIdle
    /\ ItemFormIdle

SpecBands == BandInit /\ [][TimelineNext]_vars

----------------------------------------------------------------------------
(* The item form (ItemForm.tsx) with handleSaveItem and handleDeleteItem of
   LifeMapView *)

\* The form fields at submit.  Every field is a text the user can replace
\* before submitting (what useEffect loaded from the item is one such text),
\* so the fields are inputs of handleSubmit.  An age text is <<>> (empty) or
\* <<n>> (the text of the number n); a date text is <<>>, <<BadDate>> or
\* <<date>>; a title is <<>> (blank) or its words.
FormTitles == {<<>>, <<1>>}

FormStartAges == {None, Some(Yr(20) + 1), Some(Yr(300))}

FormEndAges == {None, Some(Yr(10)), Some(Yr(25))}

FormStartDates == {None, Some(BadDate), Some(Date(2010, 6, 15))}

FormEndDates == {None, Some(Date(2009, 6, 15)), Some(Date(2011, 6, 15))}

\* The description is left empty in these forms.
FormInputs ==
    [title : FormTitles, description : {None}, inputMode : {"age", "date"},
     startAge : FormStartAges, endAge : FormEndAges,
     startDate : FormStartDates, endDate : FormEndDates,
     isMaxChecked : BOOLEAN]

\* validateAge: the number, or null for an empty text or a number outside
\* 0..maxAge
validateAge(value, maxAge) ==
    IF value = None THEN None
    ELSE IF value[1] < 0 \/ value[1] > maxAge THEN None
    ELSE value

\* endDateObj < startDateObj
DateBefore(a, b) ==
    \/ a.y < b.y
    \/ (a.y = b.y /\ a.m < b.m)
    \/ (a.y = b.y /\ a.m = b.m /\ a.d < b.d)

\* handleSubmit, the validation: the fields in error
validationErrors(form, maxAge) ==
    (IF form.title = <<>> THEN {"title"} ELSE {})
    \cup
    (IF form.inputMode = "date"
     THEN (IF form.startDate = None \/ NewDate(form.startDate[1]) = None
           THEN {"startDate"} ELSE {})
          \cup
          (IF /\ form.endDate # None
              /\ \/ NewDate(form.endDate[1]) = None
                 \/ /\ form.startDate # None
                    /\ NewDate(form.startDate[1]) # None
                    /\ DateBefore(form.endDate[1], form.startDate[1])
           THEN {"endDate"} ELSE {})
     ELSE (IF validateAge(form.startAge, maxAge) = None THEN {"startAge"} ELSE {})
          \cup
          (IF /\ form.endAge # None
              /\ \/ validateAge(form.endAge, maxAge) = None
                 \/ /\ validateAge(form.startAge, maxAge) # None
                    /\ form.endAge[1] < form.startAge[1]
           THEN {"endAge"} ELSE {}))

\* A variant of the date branch of handleSubmit that stores the typed ages
\* next to the dates.
itemDataKeepingAges(form, category) ==
    [category_id |-> category.id, title |-> form.title, input_mode |-> form.inputMode,
     description |-> form.description,
     start_date |-> IF form.inputMode = "date" THEN form.startDate ELSE None,
     end_date |-> IF form.inputMode = "date" /\ ~form.isMaxChecked THEN form.endDate ELSE None,
     start_age |-> form.startAge,
     end_age |-> IF form.isMaxChecked THEN None ELSE form.endAge,
     use_max_age |-> form.isMaxChecked]

\* handleSubmit, after the validation: the itemData handed to onSave
itemData(form, category) ==
    IF form.inputMode = "date"
    THEN [category_id |-> category.id, title |-> form.title, input_mode |-> "date",
          description |-> form.description,
          start_date |-> form.startDate,
          end_date |-> IF form.isMaxChecked THEN None ELSE form.endDate,
          start_age |-> None, end_age |-> None,
          use_max_age |-> form.isMaxChecked]
    ELSE [category_id |-> category.id, title |-> form.title, input_mode |-> "age",
          description |-> form.description,
          start_age |-> form.startAge,
          start_date |-> None, end_date |-> None,
          use_max_age |-> form.isMaxChecked,
          end_age |-> IF form.isMaxChecked THEN None ELSE form.endAge]

\* categories.find(c => c.id === id), or undefined
FindCategory(id) ==
    IF \E k \in DOMAIN categories : categories[k].id = id
    THEN categories[Min({k \in DOMAIN categories : categories[k].id = id})]
    ELSE NoCategory

\* A variant that numbers a new item by its place in the list
newItemIdByCount == Len(items) + 1

\* id: nextItemId
newItemId == nextItemId

\* handleSaveItem, the item list it stores: { ...item, ...itemData, id,
\* category } for the edited item, or the list with the new item appended.
SavedItems(data) ==
    IF editingItem # None
    THEN LET edited == editingItem[1]
             found == FindCategory(IF data.category_id # NoId THEN data.category_id
                                   ELSE edited.category_id)
             category == IF found # NoCategory THEN found ELSE edited.category
         IN  [i \in DOMAIN items |->
                IF items[i].id = edited.id
                THEN [id |-> edited.id, category_id |-> data.category_id,
                      category |-> IF category # NoCategory THEN category
                                   ELSE items[i].category,
                      title |-> data.title, description |-> data.description,
                      input_mode |-> data.input_mode,
                      start_age |-> data.start_age, end_age |-> data.end_age,
                      use_max_age |-> data.use_max_age,
                      start_date |-> data.start_date, end_date |-> data.end_date]
                ELSE items[i]]
    ELSE LET found == FindCategory(selectedCategory[1].id)
             category == IF found # NoCategory THEN found ELSE selectedCategory[1]
         IN  Append(items,
                    [id |-> newItemId, category_id |-> category.id, category |-> category,
                     title |-> data.title, description |-> data.description,
                     input_mode |-> data.input_mode,
                     start_age |-> data.start_age, end_age |-> data.end_age,
                     use_max_age |-> data.use_max_age,
                     start_date |-> data.start_date, end_date |-> data.end_date])

\* ItemForm is mounted: showItemForm && selectedCategory
ItemFormOpen == showItemForm /\ selectedCategory # None

\* onCancel and the end of handleSaveItem
CloseItemForm ==
    /\ showItemForm' = FALSE
    /\ editingItem' = None
    /\ selectedCategory' = None

\* handleSaveItem(itemData)
handleSaveItem(data) ==
    IF \/ data.title = <<>>
       \/ (data.input_mode = "date" /\ data.start_date = None)
       \/ (data.input_mode # "date" /\ data.start_age = None)
    THEN UNCHANGED <<items, itemFormVars>>
    ELSE /\ items' = SavedItems(data)
         /\ nextItemId' = IF editingItem = None THEN nextItemId + 1 ELSE nextItemId
         /\ CloseItemForm

ItemFormFrame ==
    UNCHANGED <<categories, nextCategoryId, showForm, editingCategory, formData, errors,
                showCategoryManager, viewVars, fileVars, timelineVars>>

\* The Add button of a category (the ids handed out are capped at MaxItemId
\* and the list at MaxItems)
handleAddItem ==
    /\ ~ItemFormOpen
    /\ ~showCategoryManager
    /\ Len(items) < MaxItems
    /\ nextItemId <= MaxItemId
    /\ \E k \in DOMAIN categories :
          selectedCategory' = Some(categories[k])
    /\ editingItem' = None
    /\ showItemForm' = TRUE
    /\ UNCHANGED <<items, nextItemId>>
    /\ ItemFormFrame

\* A click on an item of the timeline
handleEditItem ==
    /\ ~ItemFormOpen
    /\ ~showCategoryManager
    /\ \E i \in DOMAIN items :
          /\ (items[i].category # NoCategory \/ FindCategory(items[i].category_id) # NoCategory)
          /\ editingItem' = Some(items[i])
          /\ selectedCategory' =
                Some(IF items[i].category # NoCategory THEN items[i].category
                     ELSE FindCategory(items[i].category_id))
    /\ showItemForm' = TRUE
    /\ UNCHANGED <<items, nextItemId>>
    /\ ItemFormFrame

\* handleSubmit with the fields of the form: a rejected form only shows its
\* errors
SubmitForm(form) ==
    IF validationErrors(form, ageRange) # {}
    THEN UNCHANGED <<items, itemFormVars>>
    ELSE handleSaveItem(itemData(form, selectedCategory[1]))

\* handleSubmit of the form
handleSubmit ==
    /\ ItemFormOpen
    /\ \E form \in FormInputs : SubmitForm(form)
    /\ ItemFormFrame

\* The Cancel button
CancelItemForm ==
    /\ ItemFormOpen
    /\ CloseItemForm
    /\ UNCHANGED <<items, nextItemId>>
    /\ ItemFormFrame

\* The Delete button of the form, both confirm dialogs answered OK:
\* handleDeleteItem(item.id), then onCancel()
handleDeleteItem ==
    /\ ItemFormOpen
    /\ editingItem # None
    /\ items' = SelectSeq(items, LAMBDA item : item.id # editingItem[1].id)
    /\ CloseItemForm
    /\ UNCHANGED nextItemId
    /\ ItemFormFrame

\* An item of a file with every temporal field stored
StoredEverything(id, category_id) ==
    Item(id, category_id, <<1>>, "age", Some(Yr(20)), Some(Yr(25)), TRUE,
         Some(Date(2010, 6, 15)), Some(Date(2011, 6, 15)))

\* The item lists of the life maps loaded
LoadedItemLists ==
    {<<>>, <<StoredEverything(2, 1)>>}

ItemsInit ==
    /\ categories = TopAndBottom
    /\ items \in LoadedItemLists
    /\ CatIdle
    /\ ViewIdle
    /\ TimelineIdle
    /\ FileIdle
    /\ ItemFormIdle

ItemsNext ==
    \/ handleAddItem
    \/ handleEditItem
    \/ handleSubmit
    \/ CancelItemForm
    \/ handleDeleteItem

\* The Categories button of the page
openCategoryManager ==
    /\ ~showCategoryManager
    /\ ~ItemFormOpen
    /\ showCategoryManager' = TRUE
    /\ UNCHANGED <<catVars, nextItemId, showItemForm, editingItem, selectedCategory,
                   viewVars, fileVars, timelineVars>>

\* onClose: CategoryManager is unmounted and the state of its form is lost
closeCategoryManager ==
    /\ showCategoryManager
    /\ showCategoryManager' = FALSE
    /\ showForm' = FALSE
    /\ editingCategory' = NoId
    /\ formData' = EmptyForm
    /\ errors' = {}
    /\ UNCHANGED <<categories, nextCategoryId, items, nextItemId, showItemForm, editingItem,
                   selectedCategory, viewVars, fileVars, timelineVars>>

\* A session on a loaded life map: the item handlers and the category
\* manager, one modal at a time
SessionNext ==
    \/ ItemsNext
    \/ openCategoryManager
    \/ closeCategoryManager
    \/ CatNext

SpecSession == ItemsInit /\ [][SessionNext]_vars

----------------------------------------------------------------------------
(* Life-map loads, project settings and the zoom buttons of LifeMapView *)

\* What a .lifemap file may hold (the file is parsed and handed on as it
\* is): age_range and zoom are any number or missing.  Zoom is in tenths.
FileAgeRanges == {None, Some(0), Some(Yr(5)), Some(Yr(80)), Some(Yr(500))}

FileZooms == {None, Some(5), Some(9), Some(20)}

FileBirthDates == {None, Some(Date(2000, 1, 1))}

FileItemLists == {<<>>, <<AgeItem(1, 1, <<1>>, Some(Yr(20)), Some(Yr(25)), FALSE)>>}

LifeMapFiles ==
    [title : {"Plan"}, items : FileItemLists, categories : {OneCategory},
     date_of_birth : FileBirthDates, age_range : FileAgeRanges, zoom : FileZooms]

\* fromElectronData: every item gets the category object of its category_id
fromElectronData(data) ==
    [data EXCEPT !.items =
        [i \in DOMAIN data.items |->
            [data.items[i] EXCEPT !.category =
                IF \E k \in DOMAIN data.categories :
                      data.categories[k].id = data.items[i].category_id
                THEN data.categories[Min({k \in DOMAIN data.categories :
                        data.categories[k].id = data.items[i].category_id})]
                ELSE NoCategory]],
     !.zoom = Some(OrElse(data.zoom, 10))]

\* A variant of the zoom clamp without the upper limit
clampZoomBelowOnly(loadedZoom) == Max({8, loadedZoom})

\* Math.max(0.8, Math.min(1.4, loadedZoom))
clampZoom(loadedZoom) == Max({8, Min({14, loadedZoom})})

\* initializeLifeMap(map): the state it sets, with the effect that follows
\* the zoom (setTimelineWidth(1200 * zoom))
initializeLifeMap(map) ==
    /\ lifeMap' = Some([title |-> map.title, zoom |-> map.zoom])
    /\ items' = map.items
    /\ categories' = map.categories
    /\ dateOfBirth' = map.date_of_birth
    /\ currentAge' = OrElse(calculateAge(map.date_of_birth), 0)
    /\ ageRange' = OrElse(map.age_range, Yr(80))
    /\ zoom' = clampZoom(OrElse(map.zoom, 10))
    /\ tempTitle' = TitleOr(map.title, "My Life Map")
    /\ lastSavedStateRef' =
          Some([items |-> map.items, categories |-> map.categories,
                title |-> TitleOr(map.title, "My Life Map"),
                date_of_birth |-> map.date_of_birth,
                age_range |-> OrElse(map.age_range, Yr(80)),
                zoom |-> OrElse(map.zoom, 10)])
    /\ nextItemId' =
          Max({map.items[i].id : i \in DOMAIN map.items} \cup {0}) + 1
    /\ nextCategoryId' =
          Max({map.categories[i].id : i \in DOMAIN map.categories} \cup {0}) + 1
    /\ timelineWidth' = (DEFAULT_TIMELINE_WIDTH * zoom') \div 10

\* A life map arrives in the mounted LifeMapView (location.state.lifeMap
\* without a file path): initializeLifeMap(map) and the render of the
\* Timeline
LoadLifeMap ==
    /\ \E data \in LifeMapFiles : initializeLifeMap(fromElectronData(data))
    /\ UNCHANGED <<showForm, editingCategory, formData, errors, showItemForm, editingItem,
                   selectedCategory, showCategoryManager, viewMode, autoScale, tzBehindUTC,
                   page, showSettingsOnNewFile, showCloseWarning, alertShown,
                   currentFilePath, disk, storedRecentFiles>>
    /\ Paint

\* The zoom-out button (disabled at 0.8)
zoomOut ==
    /\ rendered
    /\ ~(zoom <= 8)
    /\ zoom' = Max({8, zoom - 1})
    /\ timelineWidth' = (DEFAULT_TIMELINE_WIDTH * zoom') \div 10
    /\ UNCHANGED <<catVars, itemFormVars, dateOfBirth, ageRange, currentAge, viewMode,
                   autoScale, tzBehindUTC, fileVars>>
    /\ Paint

\* The zoom-in button (disabled at 1.4)
zoomIn ==
    /\ rendered
    /\ ~(zoom >= 14)
    /\ zoom' = Min({14, zoom + 1})
    /\ timelineWidth' = (DEFAULT_TIMELINE_WIDTH * zoom') \div 10
    /\ UNCHANGED <<catVars, itemFormVars, dateOfBirth, ageRange, currentAge, viewMode,
                   autoScale, tzBehindUTC, fileVars>>
    /\ Paint

\* LifeMapView as constructed, before the first life map arrives
ProjectInit ==
    /\ categories = <<>>
    /\ items = <<>>
    /\ nextCategoryId = 100
    /\ showForm = FALSE
    /\ editingCategory = NoId
    /\ formData = EmptyForm
    /\ errors = {}
    /\ ViewIdle
    /\ TimelineIdle
    /\ NoLifeMap
    /\ alertShown = None
    /\ currentFilePath = None
    /\ disk = [p \in Paths |-> None]
    /\ storedRecentFiles = <<>>
    /\ ItemFormIdle

ProjectNext ==
    \/ LoadLifeMap
    \/ handleUpdateProjectSettings
    \/ zoomOut
    \/ zoomIn

SpecProject == ProjectInit /\ [][ProjectNext]_vars

----------------------------------------------------------------------------
(* Files: the Dashboard, the file menu and the close dialog of LifeMapView,
   fileAPI and recentFiles.  A navigation, the mount of the page and its
   effects are one step. *)

\* createNewLifemap of the main process
NewLifeMap ==
    [title |-> "My Life Map", date_of_birth |-> None, age_range |-> Some(Yr(80)),
     zoom |-> Some(10),
     categories |-> <<Cat(1, "projects", "top", 1), Cat(2, "relationships", "top", 2),
                      Cat(3, "residences", "top", 3), Cat(4, "remuneration", "top", 4),
                      Cat(5, "inflection_points", "bottom", 1),
                      Cat(6, "key_insights", "bottom", 2),
                      Cat(7, "specific_goals", "bottom", 3)>>,
     items |-> <<>>]

\* The .lifemap file on the disk when the application starts
StoredLifeMap ==
    [title |-> "Plan", date_of_birth |-> Some(Date(2000, 1, 1)), age_range |-> Some(Yr(80)),
     zoom |-> Some(10), categories |-> OneCategory,
     items |-> <<AgeItem(1, 1, <<1>>, Some(Yr(20)), Some(Yr(25)), FALSE)>>]

\* What is typed into the description of the item form, and the title of
\* the project settings wiped
FormDescriptions == {None, Some("note")}

SettingsTitles == {""}

\* Timeline is not mounted, or not rendered yet
TimelineReset ==
    /\ rendered' = FALSE
    /\ itemAges' = <<>>
    /\ displayWindow' = [startAge |-> 0, displayRange |-> 0]
    /\ itemWidths' = <<>>
    /\ stackPositions' = <<>>
    /\ categoryMaxStacks' = <<>>
    /\ drawnItems' = <<>>
    /\ drawnLines' = {}
    /\ ageMarkers' = {}
    /\ zeroDivisions' = {}
    /\ itemHeights' = <<>>
    /\ categoryMaxHeights' = <<>>
    /\ categoryBackgrounds' = <<>>
    /\ ageBarY' = 0
    /\ itemRows' = <<>>

\* The state of a LifeMapView just mounted that initializeLifeMap does not
\* set: the useState values
FreshView ==
    /\ showForm' = FALSE
    /\ editingCategory' = NoId
    /\ formData' = EmptyForm
    /\ errors' = {}
    /\ showItemForm' = FALSE
    /\ editingItem' = None
    /\ selectedCategory' = None
    /\ showCategoryManager' = FALSE
    /\ viewMode' = "all"
    /\ autoScale' = FALSE
    /\ showCloseWarning' = FALSE
    /\ TimelineReset

\* navigate('/life-map', { state: { lifeMap: map, showSettings } }):
\* LifeMapView mounts and its effects run (showSettingsOnNewFile for
\* showSettings, initializeLifeMap(map, false))
Mount(map, showSettings) ==
    /\ page' = "life-map"
    /\ FreshView
    /\ initializeLifeMap(map)
    /\ showSettingsOnNewFile' = showSettings

\* navigate('/'): LifeMapView unmounts and the Dashboard is shown
Unmount ==
    /\ page' = "dashboard"
    /\ FreshView
    /\ lifeMap' = None
    /\ items' = <<>>
    /\ categories' = <<>>
    /\ dateOfBirth' = None
    /\ currentAge' = 0
    /\ ageRange' = Yr(80)
    /\ zoom' = 10
    /\ timelineWidth' = DEFAULT_TIMELINE_WIDTH
    /\ tempTitle' = ""
    /\ lastSavedStateRef' = None
    /\ nextItemId' = 1
    /\ nextCategoryId' = 100
    /\ showSettingsOnNewFile' = FALSE

\* Dashboard.handleNewFile, from the button or the menu: createNew,
\* setCurrentFilePath(null), navigate
handleNewFile ==
    /\ page = "dashboard"
    /\ currentFilePath' = None
    /\ Mount(fromElectronData(NewLifeMap), TRUE)
    /\ alertShown' = None
    /\ UNCHANGED <<disk, storedRecentFiles, tzBehindUTC>>

\* Dashboard.handleOpenFile with a file picked in the dialog: openFile reads
\* it and adds it to the recent files
handleOpenFile ==
    /\ page = "dashboard"
    /\ \E filePath \in Paths :
          /\ disk[filePath] # None
          /\ \E map \in {fromElectronData(disk[filePath][1])} :
                /\ storedRecentFiles' = recentFilesAdd(storedRecentFiles, filePath, map.title)
                /\ currentFilePath' = Some(filePath)
                /\ Mount(map, FALSE)
    /\ alertShown' = None
    /\ UNCHANGED <<disk, tzBehindUTC>>

\* The menu action 'new-file' of LifeMapView: navigate('/'), createNew,
\* navigate('/life-map', { state: { lifeMap: map, showSettings: true } })
menuNewFile ==
    /\ page = "life-map"
    /\ Mount(fromElectronData(NewLifeMap), TRUE)
    /\ alertShown' = None
    /\ UNCHANGED <<currentFilePath, disk, storedRecentFiles, tzBehindUTC>>

\* onChange of the title field of the project settings
setTempTitle ==
    /\ page = "life-map"
    /\ lifeMap # None
    /\ \E t \in SettingsTitles \ {tempTitle} : tempTitle' = t
    /\ alertShown' = None
    /\ UNCHANGED <<catVars, viewVars, timelineVars, itemFormVars, page, lifeMap,
                   showSettingsOnNewFile, lastSavedStateRef, showCloseWarning,
                   currentFilePath, disk, storedRecentFiles>>

\* The fields ItemForm loads from the item it edits
ItemFormOf(item, maxAge) ==
    IF item.input_mode = "date" /\ item.start_date # None
    THEN [title |-> item.title, description |-> item.description, inputMode |-> "date",
          startDate |-> item.start_date, endDate |-> item.end_date,
          startAge |-> None, endAge |-> None, isMaxChecked |-> item.use_max_age]
    ELSE [title |-> item.title, description |-> item.description,
          inputMode |-> item.input_mode,
          startAge |-> Some(OrElse(item.start_age, 0)),
          startDate |-> None, endDate |-> None,
          isMaxChecked |-> item.use_max_age,
          endAge |-> IF item.use_max_age THEN Some(maxAge) ELSE item.end_age]

\* handleSubmit of the form of an edited item with only the description
\* typed over
handleSubmitDescription ==
    /\ ItemFormOpen
    /\ editingItem # None
    /\ \E description \in FormDescriptions :
          SubmitForm([ItemFormOf(editingItem[1], ageRange) EXCEPT !.description = description])
    /\ ItemFormFrame

\* saveLifeMap, the map it hands to saveFile
updatedMap ==
    [title |-> TitleOr(tempTitle, TitleOr(lifeMap[1].title, "My Life Map")),
     date_of_birth |-> dateOfBirth, age_range |-> Some(ageRange), zoom |-> Some(zoom),
     categories |-> categories, items |-> items]

\* saveLifeMap with saveFile writing to target (<<>>: the save dialog was
\* cancelled) and the write succeeding or not: what it leaves in the file
\* state.  The error of saveFile is caught and shown in an alert.
SaveOutcome(target, written) ==
    IF target # None /\ written
    THEN [ok |-> TRUE,
          disk |-> [disk EXCEPT ![target[1]] = Some(LifeMapData(updatedMap))],
          storedRecentFiles |-> recentFilesAdd(storedRecentFiles, target[1], updatedMap.title),
          lifeMap |-> Some([title |-> updatedMap.title, zoom |-> updatedMap.zoom]),
          currentFilePath |-> target,
          lastSavedStateRef |->
              Some([items |-> items, categories |-> categories, title |-> updatedMap.title,
                    date_of_birth |-> dateOfBirth, age_range |-> ageRange, zoom |-> zoom])]
    ELSE [ok |-> FALSE, disk |-> disk, storedRecentFiles |-> storedRecentFiles,
          lifeMap |-> lifeMap, currentFilePath |-> currentFilePath,
          lastSavedStateRef |-> lastSavedStateRef]

\* saveLifeMap() of the menu action 'save-file'
saveLifeMap ==
    /\ page = "life-map"
    /\ lifeMap # None
    /\ \E target \in saveFileTargets(currentFilePath), written \in BOOLEAN :
          \E saved \in {SaveOutcome(target, written)} :
              /\ disk' = saved.disk
              /\ storedRecentFiles' = saved.storedRecentFiles
              /\ lifeMap' = saved.lifeMap
              /\ currentFilePath' = saved.currentFilePath
              /\ lastSavedStateRef' = saved.lastSavedStateRef
              /\ alertShown' = Some(IF saved.ok THEN "File saved successfully!"
                                    ELSE "Failed to save file")
    /\ UNCHANGED <<catVars, viewVars, timelineVars, itemFormVars, page, tempTitle,
                   showSettingsOnNewFile, showCloseWarning>>

\* hasUnsavedChanges().  (The colour of an item and the label and colour of
\* a category are left out of the records and of the comparison.)
hasUnsavedChanges ==
    IF lastSavedStateRef = None \/ lifeMap = None THEN FALSE
    ELSE LET saved == lastSavedStateRef[1]
             currentTitle == TitleOr(tempTitle, lifeMap[1].title)
         IN  \/ Len(items) # Len(saved.items)
             \/ Len(categories) # Len(saved.categories)
             \/ currentTitle # saved.title
             \/ dateOfBirth # saved.date_of_birth
             \/ ageRange # saved.age_range
             \/ zoom # saved.zoom
             \/ \E i \in DOMAIN items :
                   \/ items[i].id # saved.items[i].id
                   \/ items[i].title # saved.items[i].title
                   \/ items[i].start_age # saved.items[i].start_age
                   \/ items[i].end_age # saved.items[i].end_age
                   \/ items[i].start_date # saved.items[i].start_date
                   \/ items[i].end_date # saved.items[i].end_date
                   \/ items[i].input_mode # saved.items[i].input_mode
                   \/ items[i].use_max_age # saved.items[i].use_max_age
                   \/ items[i].category_id # saved.items[i].category_id
             \/ \E i \in DOMAIN categories :
                   \/ categories[i].id # saved.categories[i].id
                   \/ categories[i].name # saved.categories[i].name
                   \/ categories[i].section # saved.categories[i].section
                   \/ categories[i].display_order # saved.categories[i].display_order

\* handleCloseFile of the menu action 'close-file'
handleCloseFile ==
    /\ page = "life-map"
    /\ IF hasUnsavedChanges
       THEN /\ showCloseWarning' = TRUE
            /\ UNCHANGED <<catVars, viewVars, timelineVars, itemFormVars, page, lifeMap,
                           tempTitle, showSettingsOnNewFile, lastSavedStateRef,
                           currentFilePath>>
       ELSE /\ currentFilePath' = None
            /\ Unmount
            /\ UNCHANGED tzBehindUTC
    /\ alertShown' = None
    /\ UNCHANGED <<disk, storedRecentFiles>>

\* handleCloseWithSave, the Save & Close button of the warning
handleCloseWithSave ==
    /\ page = "life-map"
    /\ showCloseWarning
    /\ \E target \in saveFileTargets(currentFilePath), written \in BOOLEAN :
          \E saved \in {SaveOutcome(target, written)} :
              /\ disk' = saved.disk
              /\ storedRecentFiles' = saved.storedRecentFiles
              /\ alertShown' = IF saved.ok THEN None ELSE Some("Failed to save file")
    /\ currentFilePath' = None
    /\ Unmount
    /\ UNCHANGED tzBehindUTC

\* handleCloseWithoutSave, the Don't Save button of the warning
handleCloseWithoutSave ==
    /\ page = "life-map"
    /\ showCloseWarning
    /\ currentFilePath' = None
    /\ Unmount
    /\ alertShown' = None
    /\ UNCHANGED <<disk, storedRecentFiles, tzBehindUTC>>

\* The Cancel button of the warning
CancelCloseWarning ==
    /\ page = "life-map"
    /\ showCloseWarning
    /\ showCloseWarning' = FALSE
    /\ alertShown' = None
    /\ UNCHANGED <<catVars, viewVars, timelineVars, itemFormVars, page, lifeMap, tempTitle,
                   showSettingsOnNewFile, lastSavedStateRef, currentFilePath, disk,
                   storedRecentFiles>>

\* The application starts on the Dashboard.
DashboardInit ==
    /\ page = "dashboard"
    /\ categories = <<>>
    /\ items = <<>>
    /\ nextCategoryId = 100
    /\ showForm = FALSE
    /\ editingCategory = NoId
    /\ formData = EmptyForm
    /\ errors = {}
    /\ ViewIdle
    /\ TimelineIdle
    /\ ItemFormIdle
    /\ lifeMap = None
    /\ tempTitle = ""
    /\ showSettingsOnNewFile = FALSE
    /\ lastSavedStateRef = None
    /\ showCloseWarning = FALSE
    /\ alertShown = None
    /\ currentFilePath = None

\* One .lifemap file is on the disk.
FileInit ==
    /\ DashboardInit
    /\ disk = [p \in Paths |-> IF p = 1 THEN Some(LifeMapData(StoredLifeMap)) ELSE None]
    /\ storedRecentFiles = <<>>

FileNext ==
    \/ handleNewFile
    \/ handleOpenFile
    \/ menuNewFile
    \/ RenderTimeline
    \/ handleUpdateProjectSettings
    \/ setTempTitle
    \/ handleEditItem
    \/ handleSubmitDescription
    \/ CancelItemForm
    \/ saveLifeMap
    \/ handleCloseFile
    \/ handleCloseWithSave
    \/ handleCloseWithoutSave
    \/ CancelCloseWarning

SpecFile == FileInit /\ [][FileNext]_vars

----------------------------------------------------------------------------
(* recentFiles: the list kept in localStorage *)

\* The paths and titles handed to recentFiles: paths in the middle and at
\* the end of a full list, and paths not in it
AddPaths == {5, 10, 11, 12}

RemovePaths == {1, 5, 12}

RecentTitles == {"Plan", "Other"}

\* Lists the store holds when the application starts: none, and the lists
\* left by add(9, "Plan") ... add(1, "Plan") and by add(10, "Plan") ...
\* add(1, "Plan")
RecentLists ==
    {[i \in 1 .. n |-> [path |-> i, title |-> "Plan"]] : n \in {0, 9, MAX_RECENT_FILES}}

RecentFrame == UNCHANGED <<catVars, viewVars, timelineVars, itemFormVars, page, lifeMap,
                           tempTitle, showSettingsOnNewFile, lastSavedStateRef,
                           showCloseWarning, alertShown, currentFilePath, disk>>

\* recentFiles.add(path, title)
recentFiles_add ==
    /\ \E path \in AddPaths, title \in RecentTitles :
          storedRecentFiles' = recentFilesAdd(storedRecentFiles, path, title)
    /\ RecentFrame

\* recentFiles.remove(path)
recentFiles_remove ==
    /\ \E path \in RemovePaths :
          storedRecentFiles' = recentFilesRemove(storedRecentFiles, path)
    /\ RecentFrame

\* recentFiles.clear()
recentFiles_clear ==
    /\ storedRecentFiles' = <<>>
    /\ RecentFrame

RecentInit ==
    /\ DashboardInit
    /\ disk = [p \in Paths |-> None]
    /\ storedRecentFiles \in RecentLists

RecentNext == recentFiles_add \/ recentFiles_remove \/ recentFiles_clear

SpecRecent == RecentInit /\ [][RecentNext]_vars

----------------------------------------------------------------------------
(* C5: for any item with use_max_age = true, in age mode or date mode and
   whatever end_age or end_date is stored, the normalized end_age is the
   current age_range, also after the project settings changed age_range. *)
C5_UseMaxAgeIsAgeRange ==
    rendered =>
        \A i \in DOMAIN items :
            items[i].use_max_age =>
                /\ items[i].id \in DOMAIN itemAges
                /\ itemAges[items[i].id].end_age = Some(ageRange)

\* A use_max_age item with a stored end, rendered after the settings changed
\* the age range to 60.
C5_Witness ==
    /\ rendered
    /\ ageRange = Yr(60)
    /\ \E i \in DOMAIN items :
          /\ items[i].use_max_age
          /\ (items[i].end_age # None \/ items[i].end_date # None)
          /\ itemAges[items[i].id].end_age = Some(Yr(60))

\* Whole months between two date strings, as the claim defines them.
MonthsBetween(st, en) ==
    (en.y - st.y) * 12 + (en.m - st.m) - (IF en.d < st.d THEN 1 ELSE 0)

\* A date-mode item without use_max_age whose two dates and the date of
\* birth are valid.
ValidDateSpan(item) ==
    /\ item.input_mode = "date"
    /\ ~item.use_max_age
    /\ item.start_date # None /\ item.end_date # None /\ dateOfBirth # None
    /\ ValidDate(item.start_date[1]) /\ ValidDate(item.end_date[1])
    /\ ValidDate(dateOfBirth[1])

(* C6: for a date-mode item without use_max_age and with valid dates, with m
   the whole months between start_date and end_date: m < 3 gives a milestone,
   3 <= m <= 12 gives end_age = start_age + 1, m > 12 gives end_age = the age
   at end_date. *)
C6_MonthThresholds ==
    rendered =>
        \A i \in DOMAIN items :
            ValidDateSpan(items[i]) =>
                LET m == MonthsBetween(items[i].start_date[1], items[i].end_date[1])
                    ages == itemAges[items[i].id]
                IN  /\ (m < 3 => ages.end_age = None)
                    /\ (3 <= m /\ m <= 12 => ages.end_age = Some(ages.start_age + Yr(1)))
                    /\ (m > 12 => ages.end_age = calculateAgeAtDate(items[i].end_date, dateOfBirth))

\* A date-mode item whose start age cannot be computed: its start_date is no
\* date, or the date of birth is missing or no date.
BadStart(item) ==
    /\ item.input_mode = "date"
    /\ item.start_date # None
    /\ \/ ~ValidDate(item.start_date[1])
       \/ dateOfBirth = None
       \/ ~ValidDate(dateOfBirth[1])

RemoveAt(s, i) == SubSeq(s, 1, i - 1) \o SubSeq(s, i + 1, Len(s))

(* C7: a date-mode item with an unparsable start_date, or any date-mode item
   when the date of birth is missing or unparsable, does not fail the
   normalizer: it gets start_age = 0, and every other item of the pass gets
   the ages it would get with the bad item absent. *)
C7_BadItemIsAgeZero ==
    rendered =>
        \A i \in DOMAIN items :
            BadStart(items[i]) =>
                /\ items[i].id \in DOMAIN itemAges
                /\ itemAges[items[i].id].start_age = 0
                /\ \A j \in DOMAIN items \ {i} :
                      /\ items[j].id \in DOMAIN itemAges
                      /\ itemAges[items[j].id]
                            = ItemAgesOf(RemoveAt(items, i), dateOfBirth, ageRange)[items[j].id]

\* A pass with an unparsable start_date next to a well-formed span.
C7_Witness ==
    /\ rendered
    /\ \E i, j \in DOMAIN items :
          /\ items[i].start_date = Some(BadDate)
          /\ dateOfBirth = Some(Date(2000, 1, 1))
          /\ itemAges[items[i].id].start_age = 0
          /\ items[j].start_age = Some(Yr(20))
          /\ itemAges[items[j].id] = [start_age |-> Yr(20), end_age |-> Some(Yr(25))]

----------------------------------------------------------------------------
(* Claims about the Timeline *)

\* An item whose category_id is the id of no category of the list and that
\* carries no category of its own.
IsOrphan(item) ==
    /\ item.category = NoCategory
    /\ \A k \in DOMAIN categories : categories[k].id # item.category_id

\* Two items the render placed in the same lane of the same category.
SameLane(a, b) ==
    /\ a.id # b.id
    /\ a.id \in DOMAIN stackPositions /\ b.id \in DOMAIN stackPositions
    /\ a.category_id = b.category_id
    /\ stackPositions[a.id] = stackPositions[b.id]

\* A point item strictly inside the time extent of a span.
StrictlyInside(point, span) ==
    /\ itemAges[point.id].end_age = None
    /\ itemAges[span.id].end_age # None
    /\ itemAges[span.id].start_age < itemAges[point.id].start_age
    /\ itemAges[point.id].start_age < itemAges[span.id].end_age[1]

(* C2: for every category and every pair of distinct items that
   assignStackPositions places in the same lane, itemsOverlap is false; in
   particular a milestone strictly inside a span's time extent never shares
   the span's lane. *)
C2_SameLaneNoOverlap ==
    rendered =>
        \A i, j \in DOMAIN VisibleItems :
            LET a == VisibleItems[i]
                b == VisibleItems[j]
            IN  SameLane(a, b) =>
                    /\ \A r \in {Measured} : ~itemsOverlap(r, a, b)
                    /\ ~StrictlyInside(a, b)

\* A span and a milestone share a lane while a second milestone, strictly
\* inside the span, is in the same category on another lane.
C2_Witness ==
    /\ rendered
    /\ displayWindow.displayRange > 0
    /\ \E i, j, k \in DOMAIN VisibleItems :
          LET span == VisibleItems[i]
              first == VisibleItems[j]
              inside == VisibleItems[k]
          IN  /\ SameLane(span, first)
              /\ itemAges[span.id].end_age # None
              /\ itemAges[first.id].end_age = None
              /\ StrictlyInside(inside, span)
              /\ inside.id \in DOMAIN stackPositions
              /\ inside.category_id = span.category_id
              /\ stackPositions[inside.id] # stackPositions[span.id]

(* C3: every autoscale computation of calculateDisplayRange returns a
   displayRange of at least 20. *)
C3_DisplayRangeAtLeast20 ==
    (rendered /\ autoScale) => displayWindow.displayRange >= Yr(20)

(* C4: every autoscale computation of calculateDisplayRange returns a window
   with startAge + displayRange <= age_range. *)
C4_WindowWithinAgeRange ==
    (rendered /\ autoScale) =>
        displayWindow.startAge + displayWindow.displayRange <= ageRange

(* C8: an item whose category_id resolves to no category, and that carries no
   category object, gets no lane, no shape and no connector line, and every
   other item handed to the Timeline still gets its lane. *)
C8_OrphanExcluded ==
    rendered =>
        \A i \in DOMAIN VisibleItems :
            LET item == VisibleItems[i]
            IN  IF IsOrphan(item)
                THEN /\ item.id \notin DOMAIN stackPositions
                     /\ item.id \notin DOMAIN drawnItems
                     /\ item.id \notin drawnLines
                ELSE item.id \in DOMAIN stackPositions

\* An orphaned milestone rendered next to an item that got a lane and a shape.
C8_Witness ==
    /\ rendered
    /\ displayWindow.displayRange > 0
    /\ \E i, j \in DOMAIN VisibleItems :
          /\ IsOrphan(VisibleItems[i])
          /\ itemAges[VisibleItems[i].id].end_age = None
          /\ VisibleItems[i].id \notin drawnLines
          /\ ~IsOrphan(VisibleItems[j])
          /\ VisibleItems[j].id \in DOMAIN stackPositions
          /\ VisibleItems[j].id \in DOMAIN drawnItems

(* C9: when the displayed span is 0, a layout pass executes no division by
   zero and renders nothing: no item shape, no connector line, no year box. *)
C9_ZeroSpanRendersNothing ==
    (rendered /\ displayWindow.displayRange = 0) =>
        /\ zeroDivisions = {}
        /\ DOMAIN drawnItems = {}
        /\ drawnLines = {}
        /\ ageMarkers = {}

----------------------------------------------------------------------------
(* C1: after any sequence of category create, edit and delete operations,
   starting from dense sections, the display_order values of every section
   are exactly 0..count-1, each used once. *)
C1_DensityAlways == Dense(categories)

(* C10: deleting a category fails when a timeline item uses it: the category
   stays in the list, so every item's category_id resolves to a known
   category after any handleDelete. *)
C10_ItemsResolve ==
    \A i \in DOMAIN items :
        \E k \in DOMAIN categories : categories[k].id = items[i].category_id

----------------------------------------------------------------------------
\* a >= b for two widths
WGeq(a, b) == a.inf \/ (~b.inf /\ a.v >= b.v)

\* The visible items with a normalized end_age that are drawn
DrawnSpans ==
    {i \in DOMAIN VisibleItems :
        /\ VisibleItems[i].id \in DOMAIN drawnItems
        /\ itemAges[VisibleItems[i].id].end_age # None}

(* C11: every drawn span has a drawn width of at least one year's pixel
   width (pixelWidth / displayRange), in the all, past and future views,
   clipped at the current-age line or not, with whole or fractional ages. *)
C11_SpanAtLeastOneYear ==
    rendered =>
        \A i \in DrawnSpans :
            \A r \in {Measured} :
                WGeq(drawnItems[VisibleItems[i].id].width, OneYearWidth(r))

\* x(currentAge) in the pixel units of the render
CurrentAgeX == Only({ageToX(r, currentAge) : r \in {Measured}})

(* C12: in past view no drawn span rectangle extends to the right of
   x(currentAge) and in future view none extends to the left of it; a span
   with start < currentAge < end is drawn from x(start) to x(currentAge) in
   past view and from x(currentAge) to x(end) in future view. *)
C12_SpansStopAtCurrentAge ==
    rendered =>
        \A i \in DrawnSpans :
            LET id == VisibleItems[i].id
                ages == itemAges[id]
                rect == drawnItems[id]
                crossing == ages.start_age < currentAge /\ currentAge < ages.end_age[1]
            IN  \A r \in {Measured} :
                   /\ viewMode = "past" =>
                         /\ ~rect.width.inf
                         /\ rect.x + rect.width.v <= CurrentAgeX
                         /\ crossing =>
                               /\ rect.x = ageToX(r, ages.start_age)
                               /\ rect.x + rect.width.v = CurrentAgeX
                   /\ viewMode = "future" =>
                         /\ rect.x >= CurrentAgeX
                         /\ crossing =>
                               /\ rect.x = CurrentAgeX
                               /\ ~rect.width.inf
                               /\ rect.x + rect.width.v = ageToX(r, ages.end_age[1])

\* Two drawn rectangles share an interval of positive length.
RectsIntersect(a, b) ==
    /\ (b.width.inf \/ a.x < b.x + b.width.v)
    /\ (a.width.inf \/ b.x < a.x + a.width.v)

(* C13: two items of one category that are assigned the same lane have
   rendered horizontal extents (a span from x(start) for its rendered width,
   a milestone x(start) plus or minus half its title-derived width) that do
   not intersect in an interval of positive length. *)
C13_SameLaneExtentsDisjoint ==
    rendered =>
        \A i, j \in DOMAIN VisibleItems :
            LET a == VisibleItems[i]
                b == VisibleItems[j]
            IN  (/\ SameLane(a, b)
                 /\ a.id \in DOMAIN drawnItems
                 /\ b.id \in DOMAIN drawnItems)
                => ~RectsIntersect(drawnItems[a.id], drawnItems[b.id])

----------------------------------------------------------------------------
\* An item without the category object attached to it
StoredFields(item) == [item EXCEPT !.category = NoCategory]

\* Exactly one temporal variant is populated.
OneVariant(item) ==
    /\ item.input_mode = "date" =>
          item.start_date # None /\ item.start_age = None /\ item.end_age = None
    /\ item.input_mode = "age" =>
          item.start_age # None /\ item.start_date = None /\ item.end_date = None
    /\ item.use_max_age => item.end_age = None /\ item.end_date = None

(* C14: every item that an add or an edit submitted through the item form
   stores has exactly one temporal variant populated: date mode has
   start_date and neither start_age nor end_age, age mode has start_age and
   neither start_date nor end_date, and use_max_age has neither end_age nor
   end_date.  (The items a form step stores are the ones not in the list
   before it; a category save or delete only replaces the category object
   attached to an item.) *)
C14_FormItemsOneVariant ==
    [][\A i \in DOMAIN items' :
          StoredFields(items'[i]) \notin {StoredFields(items[k]) : k \in DOMAIN items}
          => OneVariant(items'[i])]_vars

\* An item loaded in age mode with every temporal field stored is now a
\* date-mode item with use_max_age, after an edit that switched the mode.
C14_Witness ==
    \E i \in DOMAIN items :
        /\ items[i].id = 2
        /\ items[i].input_mode = "date"
        /\ items[i].use_max_age
        /\ OneVariant(items[i])

----------------------------------------------------------------------------
(* C15: the age range that reaches the layout engine is within 10..200 after
   any sequence of life-map loads and project-settings submissions (a
   submission with an age range outside 10..200 changes nothing). *)
C15_AgeRangeWithin10And200 ==
    /\ Yr(10) <= ageRange /\ ageRange <= Yr(200)
    /\ rendered => \A p \in {Props} : Yr(10) <= p.ageRange /\ p.ageRange <= Yr(200)

(* C16: after any sequence of life-map loads (with any stored zoom value),
   zoom-in clicks and zoom-out clicks, the zoom is within 0.8..1.4. *)
C16_ZoomWithinLimits == 8 <= zoom /\ zoom <= 14

\* The zoom was clamped on a load or stopped at a limit by the buttons.
C16_Witness == rendered /\ zoom \in {8, 14} /\ timelineWidth # DEFAULT_TIMELINE_WIDTH

----------------------------------------------------------------------------
IdsOf(list) == {list[i].id : i \in DOMAIN list}

PairwiseDistinctIds(list) ==
    \A i, j \in DOMAIN list : list[i].id = list[j].id => i = j

(* C17: in a session on a loaded life map, under item add/edit/delete and
   category create/edit/delete, the item ids are pairwise distinct and so are
   the category ids; every id in use is below the next id of its kind, the
   next ids never decrease and a new item or category gets an id at or above
   the next id of the state before (so above every id of its kind loaded or
   assigned so far, deleted ones included); a step that keeps the number of
   entries keeps their ids. *)
C17_IdsDistinctAndFresh ==
    /\ [](/\ PairwiseDistinctIds(items)
          /\ PairwiseDistinctIds(categories)
          /\ \A id \in IdsOf(items) : id < nextItemId
          /\ \A id \in IdsOf(categories) : id < nextCategoryId)
    /\ [][/\ nextItemId' >= nextItemId
          /\ nextCategoryId' >= nextCategoryId
          /\ \A id \in IdsOf(items') \ IdsOf(items) : id >= nextItemId
          /\ \A id \in IdsOf(categories') \ IdsOf(categories) : id >= nextCategoryId
          /\ Len(items') = Len(items) => IdsOf(items') = IdsOf(items)
          /\ Len(categories') = Len(categories) => IdsOf(categories') = IdsOf(categories)]_vars

\* The loaded item 2 and a loaded category were deleted; the item and the
\* category created afterwards both got id 3.
C17_Witness ==
    /\ IdsOf(items) = {3}
    /\ 3 \in IdsOf(categories)
    /\ Len(categories) = 2

----------------------------------------------------------------------------
\* The form holds the name of a category other than the one being edited.
DuplicateNameInForm ==
    \E i \in DOMAIN categories :
        /\ categories[i].name = formData.name
        /\ categories[i].id # editingCategory

(* C18: under category create, edit and delete in the category manager, from
   categories with pairwise distinct names, no two categories have the same
   name and every name matches [a-z0-9_]+; a save whose name duplicates
   another category's name leaves the category list unchanged. *)
C18_NamesUniqueAndWellFormed ==
    /\ [](/\ \A i, j \in DOMAIN categories :
                categories[i].name = categories[j].name => i = j
          /\ \A i \in DOMAIN categories : categories[i].name \in Names)
    /\ [][(showForm /\ DuplicateNameInForm) => categories' = categories]_vars

\* A create whose name is another category's name was rejected.
C18_Witness ==
    /\ showForm
    /\ editingCategory = NoId
    /\ DuplicateNameInForm
    /\ "name" \in errors

----------------------------------------------------------------------------
\* The orderings of a list: the same items in every order of insertion.
Orderings(its) ==
    {[i \in DOMAIN its |-> its[p[i]]] :
        p \in {q \in [DOMAIN its -> DOMAIN its] :
                  \A i, j \in DOMAIN its : q[i] = q[j] => i = j}}

(* C19: for any two orderings of the same items of one category (same
   normalized ages, titles and zoom), assignStackPositions assigns every item
   the same lane, also when several items have equal start age and equal end
   age. *)
C19_LanesIndependentOfOrder ==
    rendered =>
        \A r \in {Measured} :
            \A c \in CategoryIds(r) :
                \A reordered \in Orderings(CategoryItems(r, c)) :
                    \A positions \in {assignStackPositions(r, reordered)} :
                        \A id \in DOMAIN positions :
                            positions[id] = stackPositions[id]

----------------------------------------------------------------------------
\* The lanes of the drawn timeline that hold the items of a list.
LanesOf(its) == {stackPositions[its[i].id] : i \in DOMAIN its}

\* Ages a come no later than ages b by start age, then by end age with
\* milestones (no end age) last.
StartThenEnd(a, b) ==
    \/ a.start_age < b.start_age
    \/ /\ a.start_age = b.start_age
       /\ \/ b.end_age = None
          \/ a.end_age # None /\ a.end_age[1] <= b.end_age[1]

(* C20: within a category, with the items sorted by start age, then end age
   with milestones last, every item in a lane k > 0 has in every lane j < k an
   item that precedes it in the sort order and overlaps it; the lanes used
   are exactly 0 .. maxLane, none of them empty. *)
C20_GreedyFirstFit ==
    rendered =>
        \A r \in {Measured} :
            \A c \in CategoryIds(r) :
                \A sorted \in {SortedItems(r, CategoryItems(r, c))} :
                    /\ \A m, n \in DOMAIN sorted :
                          m < n => StartThenEnd(getItemAges(r, sorted[m]),
                                                getItemAges(r, sorted[n]))
                    /\ \A m \in DOMAIN sorted :
                          \A j \in 0 .. stackPositions[sorted[m].id] - 1 :
                              \E n \in 1 .. m - 1 :
                                  /\ stackPositions[sorted[n].id] = j
                                  /\ itemsOverlap(r, sorted[n], sorted[m])
                    /\ sorted # <<>> =>
                          /\ LanesOf(sorted) = 0 .. Max(LanesOf(sorted))
                          /\ categoryMaxStacks[c] = Max(LanesOf(sorted)) + 1

\* Three items of one category fill lanes 0, 1 and 2 of a timeline of 80
\* years.
C20_Witness ==
    /\ rendered
    /\ ageRange = Yr(80)
    /\ \E c \in CategoryIds(Measured) :
          /\ Len(CategoryItems(Measured, c)) = 3
          /\ LanesOf(CategoryItems(Measured, c)) = {0, 1, 2}

----------------------------------------------------------------------------
\* The categories of a section, and where the background of one ends
InSection(section) == {i \in DOMAIN categories : categories[i].section = section}

BandOf(i) == categoryBackgrounds[categories[i].id]

BandEnd(i) == BandOf(i).y + BandOf(i).height

\* The bands of a section tile downward from base: one starts at base, every
\* other one starts where another ends, no two share a point inside, and a
\* smaller display_order is higher up.
TilesFrom(section, base) ==
    /\ InSection(section) # {} => \E i \in InSection(section) : BandOf(i).y = base
    /\ \A i \in InSection(section) :
          \/ BandOf(i).y = base
          \/ \E j \in InSection(section) \ {i} : BandEnd(j) = BandOf(i).y
    /\ \A i, j \in InSection(section) :
          /\ i # j => BandEnd(i) <= BandOf(j).y \/ BandEnd(j) <= BandOf(i).y
          /\ categories[i].display_order < categories[j].display_order
                => BandOf(i).y < BandOf(j).y

(* C21: the category bands tile the vertical axis: the first top band starts
   at y = 0 and each next band of a section, in ascending display_order,
   starts where the previous one ends; the age axis starts at the sum of the
   top band heights plus the section spacing; the first bottom band starts at
   axis y + axis height + section spacing; every band is at least the minimum
   row height, also for a category without items. *)
C21_BandsTile ==
    rendered =>
        /\ DOMAIN categoryBackgrounds = {categories[i].id : i \in DOMAIN categories}
        /\ TilesFrom("top", 0)
        /\ ageBarY = Max({BandEnd(i) : i \in InSection("top")} \cup {0}) + SECTION_SPACING
        /\ TilesFrom("bottom", ageBarY + AGE_MARKER_HEIGHT + SECTION_SPACING)
        /\ \A i \in DOMAIN categories : BandOf(i).height >= ROW_HEIGHT

\* Two top bands, the upper one taller than the minimum because of a wrapped
\* title, the lower one of a category without items, and a bottom band.
C21_Witness ==
    /\ rendered
    /\ \E i, j \in InSection("top") :
          /\ BandOf(i).y = 0
          /\ BandOf(i).height > ROW_HEIGHT
          /\ BandOf(j).y = BandOf(i).height
          /\ \A k \in DOMAIN items : items[k].category_id # categories[j].id
    /\ InSection("bottom") # {}

----------------------------------------------------------------------------
\* The top and the bottom of the rectangle of a rendered item
RowTop(id) == itemRows[id].y - itemRows[id].height \div 2

RowBottom(id) == itemRows[id].y + itemRows[id].height \div 2

\* The rendered items of the list, and the category each is drawn in
RenderedItems == {i \in DOMAIN VisibleItems : VisibleItems[i].id \in DOMAIN itemRows}

CategoryOf(i) == getCategory(Stacked, VisibleItems[i]).id

(* C22: the vertical extent [y - height/2, y + height/2] of every rendered
   item lies inside the band of its category, and two items of one category
   in different lanes have disjoint vertical extents, for single-line and
   wrapped (taller) items alike. *)
C22_RowsInsideBands ==
    rendered =>
        /\ \A i \in RenderedItems :
              /\ CategoryOf(i) \in DOMAIN categoryBackgrounds
              /\ categoryBackgrounds[CategoryOf(i)].y <= RowTop(VisibleItems[i].id)
              /\ RowBottom(VisibleItems[i].id)
                    <= categoryBackgrounds[CategoryOf(i)].y
                           + categoryBackgrounds[CategoryOf(i)].height
        /\ \A i, j \in RenderedItems :
              (/\ CategoryOf(i) = CategoryOf(j)
               /\ stackPositions[VisibleItems[i].id] < stackPositions[VisibleItems[j].id])
              => RowBottom(VisibleItems[i].id) <= RowTop(VisibleItems[j].id)

\* A wrapped item in lane 0 and a single-line item in the lane below it.
C22_Witness ==
    /\ rendered
    /\ \E i, j \in RenderedItems :
          /\ CategoryOf(i) = CategoryOf(j)
          /\ stackPositions[VisibleItems[i].id] = 0
          /\ stackPositions[VisibleItems[j].id] = 1
          /\ itemRows[VisibleItems[i].id].height > ITEM_HEIGHT
          /\ itemRows[VisibleItems[j].id].height = ITEM_HEIGHT

----------------------------------------------------------------------------
(* Closing and saving the file *)

\* What saveFile would write for the state last saved or loaded
LastWritten ==
    LET saved == lastSavedStateRef[1]
    IN  LifeMapData([title |-> saved.title, date_of_birth |-> saved.date_of_birth,
                     age_range |-> Some(saved.age_range), zoom |-> Some(saved.zoom),
                     categories |-> saved.categories, items |-> saved.items])

\* Something saveFile would write differs from the state last saved or loaded
PersistedChange ==
    /\ lifeMap # None
    /\ lastSavedStateRef # None
    /\ LifeMapData(updatedMap) # LastWritten

\* The same with the descriptions of the items left out
WithoutDescriptions(data) ==
    [data EXCEPT !.items = [i \in DOMAIN data.items |->
                               [data.items[i] EXCEPT !.description = None]]]

PersistedChangeButDescription ==
    /\ lifeMap # None
    /\ lastSavedStateRef # None
    /\ WithoutDescriptions(LifeMapData(updatedMap)) # WithoutDescriptions(LastWritten)

\* A step that leaves the life-map view for the dashboard with no warning
\* on the screen: Close File found nothing unsaved
ClosedWithoutWarning == page = "life-map" /\ ~showCloseWarning /\ page' = "dashboard"

\* C23: Close File leaves the file without a warning only when nothing that
\* saveFile would write differs from the state last saved or loaded, the
\* description of an item included.
C23_CloseWarnsOnAnyChange == [][ClosedWithoutWarning => ~PersistedChange]_vars

\* Close File leaves the file without a warning only when nothing but the
\* descriptions of the items differs from the state last saved or loaded.
C23_CloseWarnsButForDescription ==
    [][ClosedWithoutWarning => ~PersistedChangeButDescription]_vars

\* A file is open with a description typed over and nothing else changed.
C23_Witness ==
    /\ page = "life-map"
    /\ PersistedChange
    /\ ~PersistedChangeButDescription
    /\ ~hasUnsavedChanges

\* C24: when the save of Save & Close fails (saveFile throws, or the save
\* dialog is cancelled) the view stays open and the current file path is
\* kept.
C24_FailedSaveKeepsViewOpen ==
    [][(page = "life-map" /\ showCloseWarning /\ alertShown' = Some("Failed to save file"))
         => (page' = "life-map" /\ currentFilePath' = currentFilePath)]_vars

\* LifeMapView just mounted with a new life map: the settings of a new file
\* are up and nothing is rendered yet
FreshNew ==
    /\ page = "life-map"
    /\ showSettingsOnNewFile
    /\ ~rendered
    /\ ~showCloseWarning
    /\ items = <<>>
    /\ dateOfBirth = None
    /\ tempTitle = "My Life Map"
    /\ lifeMap = Some([title |-> "My Life Map", zoom |-> Some(10)])

\* C25: when a new life map arrives in the view, by any route, the current
\* file path is null.
C25_NewMapHasNoPath == [][(~FreshNew /\ FreshNew') => currentFilePath' = None]_vars

\* The file first opened still holds the categories it was opened with: no
\* new life map was written over it.
C25_OpenedFileNotOverwritten ==
    disk[1] # None /\ disk[1][1].categories = OneCategory

----------------------------------------------------------------------------
(* The recent files *)

\* The place of the entry of a path in a list
PlaceOf(files, path) == CHOOSE i \in DOMAIN files : files[i].path = path

\* add(path, title) applied to the stored list: the new entry is first, and
\* the entries behind it are entries of the stored list, not of that path,
\* in the order they had
AddedInFront(path, title) ==
    LET updated == recentFilesAdd(storedRecentFiles, path, title)
    IN  /\ updated # <<>>
        /\ updated[1] = [path |-> path, title |-> title]
        /\ \A i \in 2 .. Len(updated) :
              /\ updated[i].path # path
              /\ \E k \in DOMAIN storedRecentFiles : storedRecentFiles[k] = updated[i]
        /\ \A i, j \in 2 .. Len(updated) :
              i < j => PlaceOf(storedRecentFiles, updated[i].path)
                          < PlaceOf(storedRecentFiles, updated[j].path)
        /\ Len(updated) <= MAX_RECENT_FILES
        /\ \A i, j \in DOMAIN updated : updated[i].path = updated[j].path => i = j

\* C26: the stored list never has more than 10 entries nor two entries of
\* one path, and add(p, t) puts p with title t first and keeps the other
\* retained entries in their order.
C26_RecentFilesBounded ==
    /\ Len(storedRecentFiles) <= MAX_RECENT_FILES
    /\ \A i, j \in DOMAIN storedRecentFiles :
          storedRecentFiles[i].path = storedRecentFiles[j].path => i = j
    /\ \A path \in AddPaths, title \in RecentTitles : AddedInFront(path, title)

\* A full list whose first entry was added again under another title, with
\* a path added that was not in it: the last entry fell off.
C26_Witness ==
    /\ Len(storedRecentFiles) = MAX_RECENT_FILES
    /\ storedRecentFiles[1] = [path |-> 5, title |-> "Other"]
    /\ storedRecentFiles[2].path = 11
    /\ storedRecentFiles[MAX_RECENT_FILES].path = 9

----------------------------------------------------------------------------
(* The Past and Future views *)

\* The normalized ages of an item lie within [0, age_range]
AgesWithinRange(item) ==
    LET ages == deriveItemAges(item, dateOfBirth, ageRange)
    IN  /\ 0 <= ages.start_age
        /\ ages.start_age <= ageRange
        /\ ages.end_age # None =>
              (ages.start_age <= ages.end_age[1] /\ ages.end_age[1] <= ageRange)

\* A milestone at the current age, or a span of length zero at it
AtCurrentAge(item) ==
    LET ages == deriveItemAges(item, dateOfBirth, ageRange)
    IN  /\ ages.start_age = currentAge
        /\ (ages.end_age = None \/ ages.end_age[1] = currentAge)

\* C27: every item whose normalized ages lie within [0, age_range] passes
\* the filter of the Past view or the filter of the Future view.
C27_EveryItemInPastOrFuture ==
    rendered =>
        \A i \in DOMAIN items :
            AgesWithinRange(items[i])
                => (ViewFilter("past", items[i]) \/ ViewFilter("future", items[i]))

\* The same for the items that are not at the current age
C27_EveryItemOffCurrentAge ==
    rendered =>
        \A i \in DOMAIN items :
            (AgesWithinRange(items[i]) /\ ~AtCurrentAge(items[i]))
                => (ViewFilter("past", items[i]) \/ ViewFilter("future", items[i]))

\* The part of a passed item the Past or Future view shows: a milestone's
\* start age, a span's extent clipped at the current age
VisiblePart(item) ==
    LET ages == deriveItemAges(item, dateOfBirth, ageRange)
    IN  IF ages.end_age = None
        THEN [from |-> ages.start_age, to |-> ages.start_age]
        ELSE IF viewMode = "past"
        THEN [from |-> ages.start_age, to |-> Min({ages.end_age[1], currentAge})]
        ELSE [from |-> Max({ages.start_age, currentAge}), to |-> ages.end_age[1]]

InsideWindow(part) ==
    /\ displayWindow.startAge <= part.from
    /\ part.to <= displayWindow.startAge + displayWindow.displayRange

\* C28: in the Past and Future views the visible part of every item the
\* view filter passes lies inside [startAge, startAge + displayRange].
C28_VisiblePartInsideWindow ==
    (rendered /\ viewMode # "all") =>
        \A i \in DOMAIN VisibleItems : InsideWindow(VisiblePart(VisibleItems[i]))

\* The same while the current age is within the age range and no item
\* starts before age 0
C28_VisiblePartInsideWithinRange ==
    (/\ rendered
     /\ viewMode # "all"
     /\ currentAge <= ageRange
     /\ \A i \in DOMAIN VisibleItems : VisiblePart(VisibleItems[i]).from >= 0) =>
        \A i \in DOMAIN VisibleItems : InsideWindow(VisiblePart(VisibleItems[i]))

\* C29: for an age range of 10 to 200 years, any current age and any view
\* mode, the displayRange computed for the items the view filter passes is
\* strictly positive.
C29_DisplayRangePositive ==
    (rendered /\ Yr(10) <= ageRange /\ ageRange <= Yr(200) /\ currentAge >= 0) =>
        displayWindow.displayRange > 0

\* The same while no item the view filter passes starts before age 0
C29_DisplayRangePositiveFromBirth ==
    (/\ rendered
     /\ Yr(10) <= ageRange /\ ageRange <= Yr(200) /\ currentAge >= 0
     /\ \A i \in DOMAIN VisibleItems : itemAges[VisibleItems[i].id].start_age >= 0) =>
        displayWindow.displayRange > 0

----------------------------------------------------------------------------
(* Orphaned items and the layout of the others *)

Resolvable(item) == ~IsOrphan(item)

\* A second layout pass, on the same props without the orphaned items
PropsWithoutOrphans == [Props EXCEPT !.items = SelectSeq(VisibleItems, Resolvable)]

ScaledWithoutOrphans ==
    PropsWithoutOrphans
        @@ [itemAges |-> TimelineItemAges(PropsWithoutOrphans),
            displayWindow |-> calculateDisplayRange(PropsWithoutOrphans)]

MeasuredWithoutOrphans ==
    ScaledWithoutOrphans @@ [itemWidths |-> TimelineItemWidths(ScaledWithoutOrphans)]

SameLayoutWithoutOrphans ==
    /\ displayWindow = ScaledWithoutOrphans.displayWindow
    /\ \E lanes \in {TimelineStackPositions(MeasuredWithoutOrphans)} :
          \A i \in DOMAIN VisibleItems :
              Resolvable(VisibleItems[i]) =>
                  /\ VisibleItems[i].id \in DOMAIN stackPositions
                  /\ VisibleItems[i].id \in DOMAIN lanes
                  /\ stackPositions[VisibleItems[i].id] = lanes[VisibleItems[i].id]
    /\ categoryMaxHeights = TimelineCategoryMaxHeights(MeasuredWithoutOrphans)

\* C30: the window, the lane of every item whose category resolves and the
\* height of every category band are those of a layout pass on the same
\* input without the orphaned items, in every view mode.
C30_OrphansDoNotInfluenceLayout == rendered => SameLayoutWithoutOrphans

\* The same in the All view, where the window is not scaled to the items
C30_OrphansDoNotInfluenceAllView ==
    (rendered /\ ~autoScale) => SameLayoutWithoutOrphans

====
